---- MODULE Spec2Model ----
(***************************************************************************)
(* A state-machine model of LeCrunch3's sequenced waveform acquisition,    *)
(* src/fetchAndSaveFast.py: connecting to the oscilloscope, configuring    *)
(* it, the trigger/fetch/write capture loop with its retry handler, and    *)
(* the finalisation (summary, close of the in-memory HDF5 container, bulk  *)
(* write to disk).  The oscilloscope driver (LeCrunch3), h5py and the      *)
(* clock are the environment: every call into them may return or raise.    *)
(***************************************************************************)
EXTENDS Integers, Sequences, FiniteSets, TLC

\* ------------------------------------------------------------------ bounds
MaxEvents == 3
MaxSeq == 2
MaxWidth == 2
MaxFailures == 1

\* Saturation point of the attempt counters (cycles, ntrig).
MaxCount == MaxEvents + MaxFailures + 1

\* The channel lists scope.get_channels() may report.
ChannelLists == {<< >>, <<1>>, <<1, 2>>}

Widths == 1..MaxWidth

Sat(x) == IF x < MaxCount THEN x + 1 ELSE MaxCount

VARIABLES
  pc,               \* position in fetchAndSaveFast
  scope,            \* the instrument: pending error state, sequence mode and
                    \* sample format it was asked for
  nevents,          \* argument nevents
  nsequence,        \* argument nsequence (requested sequence count)
  save_in_16bits,   \* argument save_in_16bits
  settings,         \* the SEQUENCE entry of the settings re-read by setup_scope
  warned,           \* "Could not configure sequence mode properly" was printed
  sequence_count,   \* applied sequence count (0: not read yet)
  active_channels,  \* scope.get_channels()
  current_dim,      \* current_dim[channel]
  wave_array_count, \* c<channel>_samples.attrs["wave_array_count"]: the sample
                    \* count of the initial descriptor
  samples,          \* c<channel>_samples: channel -> row -> sequence of samples
  cal,              \* the six per-event scalar columns: channel -> row -> record
  seconds,          \* seconds_from_start: row -> value (<< >>: not created)
  i,                \* absolute event index
  chIdx,            \* position of the for-loop over active_channels
  n,                \* sub-trace index of the inner for-loop
  frame,            \* the frame returned by get_waveform_all (NoFrame: none)
  cycles,           \* loop iterations started (the wall clock of the model)
  ntrig,            \* scope.trigger() calls that returned
  cycleTrig,        \* scope.trigger() calls of the current loop iteration
  failures,         \* injected failures so far
  fault,            \* the exception being handled or propagated ("none": none)
  interrupted,      \* a KeyboardInterrupt was raised inside the outer try
  succ,             \* history: the i of every cycle that completed
  finalized,        \* the finally block was entered
  statsPrinted,     \* "Completed i events ..." was printed
  reported,         \* channels whose summary was printed completely
  closed,           \* f.close() returned
  diskWrites,       \* Path(filename).write_bytes calls
  ret,              \* outcome of the call: "pending", "0", "None", "raised"
  ops,              \* history: the instrument operations setup_scope issued
  callee,           \* the helper function or entry point being run ("none": none)
  arg,              \* its argument
  result,           \* what it returned or how it exited
  returned,         \* the call is over
  c_time,           \* fetchAndSaveSimple: c<channel>_time, channel -> record of its
                    \* width and of the rows written
  file,             \* measureRateScanAndSave: the lines of the results text file
  xlast,            \* index in xes the scan starts from
  ylast,            \* index in yes the first column of the scan starts from
  xidx,             \* position of "for x in xes[xlast:]"
  yidx,             \* position of "for y in yes[ylast:]"
  rates,            \* values of the rates dictionary still to be written
  runs,             \* history: how often the scan script was started
  at,               \* history: the grid point the last run was interrupted at
  commandIndex,     \* motion: self.commandIndex
  command,          \* the command sendCommand formatted
  counterOfAttempt, \* counterOfAttempt of sendCommand
  readStr,          \* the line self.ser.readline() returned
  pending,          \* commands the controller received and has not answered
  inbuf,            \* the input buffer of the serial port
  reply             \* what sendCommand returned

storeVars == <<current_dim, wave_array_count, samples, cal, seconds>>
argVars   == <<nevents, nsequence, save_in_16bits>>
cfgVars   == <<settings, warned, sequence_count, active_channels>>
loopVars  == <<i, chIdx, n, frame, cycles, ntrig, cycleTrig>>
histVars  == <<failures, fault, interrupted, succ>>
finVars   == <<finalized, statsPrinted, reported, closed, diskWrites>>

utilVars  == <<callee, arg, result, returned>>
\* The state of the other programs of the repository.
simpleVars == <<c_time>>
scanVars   == <<file, xlast, ylast, xidx, yidx, rates, runs, at>>
motionVars == <<commandIndex, command, counterOfAttempt, readStr, pending, inbuf, reply>>
otherVars  == <<simpleVars, scanVars, motionVars>>

vars == <<pc, scope, argVars, cfgVars, storeVars, loopVars, histVars, finVars, ret, ops,
          utilVars, otherVars>>

NoFrame == [wac |-> 0, t |-> 0, trg |-> FALSE]

Rows == 0..(nevents - 1)

\* ----------------------------------------------------------- the instrument
\* The descriptor and the data the instrument returns for trigger t: the
\* calibration drifts between triggers, so every trigger has its own values.
VerticalOffset(t) == 10 * t + 1
VerticalGain(t)   == 10 * t + 2
HorizOffset(t)    == 10 * t + 3
HorizInterval(t)  == 10 * t + 4
TrgOffset(t, k)   == 10 * t + 5 + k
TrgTime(t, k)     == 10 * t + 7 + k
\* Raw sample of sub-trace k of trigger t on channel ch (every column alike).
RawSample(ch, t, k) == 1000 * ch + 10 * t + k + 1

\* The SEQUENCE replies the instrument may give: "ON,<n>,..." or "OFF,<n>,...".
SequenceReplies == [on : BOOLEAN, n : 1..MaxSeq]

\* ----------------------------------------------------------- pure functions
GetSequenceCount(s) == IF s.on THEN s.n ELSE 1

\* get_optimal_prefix(1 / horiz_interval) raises when horiz_interval is 0:
\* the h5py scalar is a numpy float, 1/0.0 is inf, log10(inf) // 3 * 3 is nan
\* and round(nan) raises ValueError.
VertHorizSummaryRaises(horiz_interval) == horiz_interval = 0

Zeros(w) == [j \in 1..w |-> 0]

\* Mutant: the columns beyond num_samples keep what the row held.
ScratchKeepsTail(w, num_samples, v) ==
  [j \in 1..w |-> IF j <= num_samples THEN v ELSE samples[active_channels[chIdx]][i + n][j]]

\* scratch = zeros(current_dim); scratch[0:num_samples] = traces[k][:num_samples]
Scratch(w, num_samples, v) == [j \in 1..w |-> IF j <= num_samples THEN v ELSE 0]

\* Mutant: the resize drops what the rows held.
ResizeRowClears(row, w) == [j \in 1..w |-> 0]

\* dataset.resize(w, 1): keeps the columns that exist, fills new ones with 0.
ResizeRow(row, w) == [j \in 1..w |-> IF j <= Len(row) THEN row[j] ELSE 0]

EmptyCal == [vert_offset |-> 0, vert_scale |-> 0, horiz_offset |-> 0,
             horiz_scale |-> 0, trig_offset |-> 0, trig_time |-> 0]

Channel == active_channels[chIdx]
NumChannels == Len(active_channels)

\* No grid point: the scan was not interrupted.
NoPoint == [x |-> -1, y |-> -1]

\* The scan script is not running.
ScanIdle ==
  /\ file = << >>
  /\ xlast = 0
  /\ ylast = 0
  /\ xidx = 0
  /\ yidx = 0
  /\ rates = 0
  /\ runs = 0
  /\ at = NoPoint

\* No line: nothing was read or returned yet.
NoReply == [kind |-> "none", index |-> 0, current |-> FALSE]

\* No motion object exists.
MotionIdle ==
  /\ commandIndex = 0
  /\ command = [index |-> 0, body |-> "none"]
  /\ counterOfAttempt = 0
  /\ readStr = NoReply
  /\ pending = << >>
  /\ inbuf = << >>
  /\ reply = NoReply

\* The other programs of the repository are not running.
OtherIdle ==
  /\ c_time = << >>
  /\ ScanIdle
  /\ MotionIdle

\* -------------------------------------------------------------------- Init
Init ==
  /\ pc = "connecting"
  /\ scope \in [error : BOOLEAN, seq : {0}, word16 : {FALSE}]
  /\ nevents \in 1..MaxEvents
  /\ nsequence \in 1..MaxSeq
  /\ nevents % nsequence = 0
  /\ save_in_16bits \in BOOLEAN
  /\ settings = [on |-> FALSE, n |-> 1]
  /\ warned = FALSE
  /\ sequence_count = 0
  /\ active_channels = << >>
  /\ current_dim = << >>
  /\ wave_array_count = << >>
  /\ samples = << >>
  /\ cal = << >>
  /\ seconds = << >>
  /\ i = 0
  /\ chIdx = 0
  /\ n = 0
  /\ frame = NoFrame
  /\ cycles = 0
  /\ ntrig = 0
  /\ cycleTrig = 0
  /\ failures = 0
  /\ fault = "none"
  /\ interrupted = FALSE
  /\ succ = << >>
  /\ finalized = FALSE
  /\ statsPrinted = FALSE
  /\ reported = {}
  /\ closed = FALSE
  /\ diskWrites = 0
  /\ ret = "pending"
  /\ ops = << >>
  /\ callee = "none"
  /\ arg = 0
  /\ result = 0
  /\ returned = FALSE
  /\ OtherIdle

\* -------------------------------------------------------------- CONNECTING
\* scope = LeCrunch3(ip, timeout=timeout)
Connect ==
  /\ pc = "connecting"
  /\ pc' = "setup_clear"
  /\ UNCHANGED <<scope, argVars, cfgVars, storeVars, loopVars, histVars, finVars, ret, ops, utilVars, otherVars>>

\* Mutant: the TimeoutError of the connection is not caught.
ConnectTimeoutPropagates ==
  /\ pc = "connecting"
  /\ pc' = "crashed"
  /\ ret' = "raised"
  /\ fault' = "timeout"
  /\ UNCHANGED <<scope, argVars, cfgVars, storeVars, loopVars, failures, interrupted,
                 succ, finVars, ops, utilVars, otherVars>>

\* except TimeoutError: print(...); return 0
ConnectTimeout ==
  /\ pc = "connecting"
  /\ pc' = "done"
  /\ ret' = "0"
  /\ fault' = "timeout"
  /\ UNCHANGED <<scope, argVars, cfgVars, storeVars, loopVars, failures, interrupted, succ, finVars, ops, utilVars, otherVars>>

\* Any exception other than TimeoutError leaves fetchAndSaveFast unhandled.
ConnectFault ==
  /\ pc = "connecting"
  /\ pc' = "crashed"
  /\ ret' = "raised"
  /\ fault' = "connect"
  /\ UNCHANGED <<scope, argVars, cfgVars, storeVars, loopVars, failures, interrupted, succ, finVars, ops, utilVars, otherVars>>

\* ------------------------------------------------------------- CONFIGURING
\* setup_scope: scope.clear()
SetupClear ==
  /\ pc = "setup_clear"
  /\ pc' = "setup_seq"
  /\ scope' = [scope EXCEPT !.error = FALSE]
  /\ ops' = Append(ops, "clear")
  /\ UNCHANGED <<argVars, cfgVars, storeVars, loopVars, histVars, finVars, ret, utilVars, otherVars>>

\* Mutant: the sample format is changed whether or not save_in_16bits is set.
SetupSequenceModeFormats ==
  /\ pc = "setup_seq"
  /\ pc' = "setup_get"
  /\ scope' = [scope EXCEPT !.seq = nsequence]
  /\ ops' = Append(ops, "set_sequence_mode")
  /\ UNCHANGED <<argVars, cfgVars, storeVars, loopVars, histVars, finVars, ret, utilVars, otherVars>>

\* setup_scope: scope.set_sequence_mode(nsequence)
SetupSequenceMode ==
  /\ pc = "setup_seq"
  /\ pc' = IF save_in_16bits THEN "setup_get" ELSE "setup_reread"
  /\ scope' = [scope EXCEPT !.seq = nsequence]
  /\ ops' = Append(ops, "set_sequence_mode")
  /\ UNCHANGED <<argVars, cfgVars, storeVars, loopVars, histVars, finVars, ret, utilVars, otherVars>>

\* setup_scope: scope_settings = scope.get_settings(), COMM_FORMAT replaced
SetupGetSettings ==
  /\ pc = "setup_get"
  /\ pc' = "setup_set"
  /\ ops' = Append(ops, "get_settings")
  /\ UNCHANGED <<scope, argVars, cfgVars, storeVars, loopVars, histVars, finVars, ret, utilVars, otherVars>>

\* setup_scope: scope.set_settings(scope_settings)
SetupSetSettings ==
  /\ pc = "setup_set"
  /\ pc' = "setup_reread"
  /\ scope' = [scope EXCEPT !.word16 = TRUE]
  /\ ops' = Append(ops, "set_settings")
  /\ UNCHANGED <<argVars, cfgVars, storeVars, loopVars, histVars, finVars, ret, utilVars, otherVars>>

\* Mutant: an applied sequence count that differs from the requested one is
\* fatal.
SetupRereadStrict ==
  /\ pc = "setup_reread"
  /\ \E s \in SequenceReplies :
       /\ settings' = s
       /\ sequence_count' = GetSequenceCount(s)
       /\ warned' = (nsequence # GetSequenceCount(s))
       /\ pc' = IF nsequence # GetSequenceCount(s) THEN "crashed" ELSE "get_channels"
       /\ ret' = IF nsequence # GetSequenceCount(s) THEN "raised" ELSE ret
  /\ ops' = Append(ops, "get_settings")
  /\ UNCHANGED <<scope, argVars, active_channels, storeVars, loopVars, histVars, finVars, utilVars, otherVars>>

\* setup_scope: settings = scope.get_settings(); the applied sequence count is
\* parsed from it (there for the warning, and again by fetchAndSaveFast).
SetupReread ==
  /\ pc = "setup_reread"
  /\ \E s \in SequenceReplies :
       /\ settings' = s
       /\ sequence_count' = GetSequenceCount(s)
       /\ warned' = (nsequence # GetSequenceCount(s))
  /\ pc' = "get_channels"
  /\ ops' = Append(ops, "get_settings")
  /\ UNCHANGED <<scope, argVars, active_channels, storeVars, loopVars, histVars, finVars, ret, utilVars, otherVars>>

\* active_channels = scope.get_channels()
GetChannels ==
  /\ pc = "get_channels"
  /\ \E chs \in ChannelLists : active_channels' = chs
  /\ pc' = "open_file"
  /\ UNCHANGED <<scope, argVars, settings, warned, sequence_count, storeVars, loopVars,
                 histVars, finVars, ret, ops, utilVars, otherVars>>

\* f = h5py.File(buf, mode="w", driver="fileobj"); the settings become attributes
OpenFile ==
  /\ pc = "open_file"
  /\ pc' = "open_store"
  /\ chIdx' = 1
  /\ UNCHANGED <<scope, argVars, cfgVars, storeVars, i, n, frame, cycles, ntrig, cycleTrig,
                 histVars, finVars, ret, ops, utilVars, otherVars>>

\* One pass of "for channel in active_channels": get_wavedesc, current_dim and
\* the channel's seven datasets.  The initial descriptor reports
\* wave_array_count = sequence_count * w samples.
CreateChannel ==
  /\ pc = "open_store"
  /\ chIdx <= NumChannels
  /\ \E w \in Widths :
       LET datapoints_no == sequence_count * w
           dim == datapoints_no \div sequence_count
       IN  /\ wave_array_count' = wave_array_count @@ (Channel :> datapoints_no)
           /\ current_dim' = current_dim @@ (Channel :> dim)
           /\ samples' = samples @@ (Channel :> [r \in Rows |-> Zeros(dim)])
           /\ cal' = cal @@ (Channel :> [r \in Rows |-> EmptyCal])
  /\ chIdx' = chIdx + 1
  /\ UNCHANGED <<pc, scope, argVars, cfgVars, seconds, i, n, frame, cycles, ntrig, cycleTrig,
                 histVars, finVars, ret, ops, utilVars, otherVars>>

\* f.create_dataset(name="seconds_from_start", shape=(nevents,))
CreateTimestamps ==
  /\ pc = "open_store"
  /\ chIdx > NumChannels
  /\ seconds' = [r \in Rows |-> 0]
  /\ pc' = "try"
  /\ UNCHANGED <<scope, argVars, cfgVars, current_dim, wave_array_count, samples, cal, loopVars,
                 histVars, finVars, ret, ops, utilVars, otherVars>>

SetupPcs == {"setup_clear", "setup_seq", "setup_get", "setup_set", "setup_reread",
             "get_channels", "open_file", "open_store", "try"}

\* Lines 187-231 are outside every try: an exception raised by the instrument
\* or by h5py there (a KeyboardInterrupt too) leaves fetchAndSaveFast at once.
SetupFault ==
  /\ pc \in SetupPcs
  /\ pc' = "crashed"
  /\ ret' = "raised"
  /\ fault' = "setup"
  /\ UNCHANGED <<scope, argVars, cfgVars, storeVars, loopVars, failures, interrupted, succ, finVars, ops, utilVars, otherVars>>

\* --------------------------------------------------------------- CAPTURING
\* try: i = 0; start_time = time.time()
EnterTry ==
  /\ pc = "try"
  /\ i' = 0
  /\ pc' = "loop_head"
  /\ UNCHANGED <<scope, argVars, cfgVars, storeVars, chIdx, n, frame, cycles, ntrig, cycleTrig,
                 histVars, finVars, ret, ops, utilVars, otherVars>>

\* while i < nevents: ... time_from_start = time.time() - start_time
LoopHead ==
  /\ pc = "loop_head"
  /\ IF i < nevents
       THEN /\ cycles' = Sat(cycles)
            /\ cycleTrig' = 0
            /\ pc' = "ts_write"
       ELSE /\ UNCHANGED <<cycles, cycleTrig>>
            /\ pc' = "finalize"
  /\ UNCHANGED <<scope, argVars, cfgVars, storeVars, i, chIdx, n, frame, ntrig,
                 histVars, finVars, ret, ops, utilVars, otherVars>>

\* The slot of seconds_from_start a cycle writes.
TimestampIndex == i

\* Mutant: a retried cycle keeps the timestamp of its first attempt.
WriteTimestampOnce ==
  /\ pc = "ts_write"
  /\ seconds' = IF seconds[TimestampIndex] = 0
                  THEN [seconds EXCEPT ![TimestampIndex] = cycles]
                  ELSE seconds
  /\ pc' = "trigger"
  /\ UNCHANGED <<scope, argVars, cfgVars, current_dim, wave_array_count, samples, cal, loopVars,
                 histVars, finVars, ret, ops, utilVars, otherVars>>

\* f["seconds_from_start"][i] = time_from_start
WriteTimestamp ==
  /\ pc = "ts_write"
  /\ seconds' = [seconds EXCEPT ![TimestampIndex] = cycles]
  /\ pc' = "trigger"
  /\ UNCHANGED <<scope, argVars, cfgVars, current_dim, wave_array_count, samples, cal, loopVars,
                 histVars, finVars, ret, ops, utilVars, otherVars>>

\* scope.trigger()
Trigger ==
  /\ pc = "trigger"
  /\ ntrig' = Sat(ntrig)
  /\ cycleTrig' = cycleTrig + 1
  /\ chIdx' = 1
  /\ pc' = IF NumChannels = 0 THEN "advance" ELSE "fetch"
  /\ UNCHANGED <<scope, argVars, cfgVars, storeVars, i, n, frame, cycles,
                 histVars, finVars, ret, ops, utilVars, otherVars>>

\* The frames scope.get_waveform_all may return after trigger t: sequence_count
\* sub-traces of w samples each; the instrument supplies trigger times and
\* offsets when it is in sequence mode.
Frames(t) == {[wac |-> sequence_count * w, t |-> t, trg |-> settings.on] : w \in Widths}

\* num_samples = wave_desc["wave_array_count"] // sequence_count
NumSamplesOf(fr) == fr.wac \div sequence_count
NumSamples == NumSamplesOf(frame)

\* The column count of the channel's sample dataset.
DatasetWidth(ch) == Len(samples[ch][0])

\* if current_dim[channel] < num_samples_to_save: current_dim[channel] = ...
NextDim(dim, num_samples) == IF dim < num_samples THEN num_samples ELSE dim

\* Lines 255-270: get_waveform_all returns a frame, then the resize guard, the
\* resize, the reshape and the scratch buffer.
FetchFrame ==
  /\ pc = "fetch"
  /\ \E fr \in Frames(ntrig) :
       /\ frame' = fr
       /\ current_dim' = [current_dim EXCEPT ![Channel] = NextDim(@, NumSamplesOf(fr))]
       /\ samples' = IF current_dim[Channel] < NumSamplesOf(fr)
                       THEN [samples EXCEPT ![Channel] =
                               [r \in Rows |-> ResizeRow(@[r], NumSamplesOf(fr))]]
                       ELSE samples
  /\ n' = 0
  /\ pc' = "rows"
  /\ UNCHANGED <<scope, argVars, cfgVars, wave_array_count, cal, seconds, i, chIdx, cycles, ntrig, cycleTrig,
                 histVars, finVars, ret, ops, utilVars, otherVars>>

\* Mutant: every sub-trace of a frame is written to row i.
RowIndexIgnoresN == i

\* The row a pass of the inner for-loop writes: i + n
RowIndex == i + n

\* Mutant: the two trigger columns are written for every frame.
NumColsAlways == 5 + 2

\* The dataset writes of one pass of "for n in range(sequence_count)", in order:
\* samples, vert_offset, vert_scale, horiz_offset, horiz_scale and, when the
\* instrument supplied them, trig_offset and trig_time.
NumCols == IF frame.trg THEN 7 ELSE 5

\* Mutant: the samples are converted to physical units (s * gain - offset)
\* before they are stored.
SamplesAfterConverted(k) ==
  IF k >= 1
    THEN [samples EXCEPT ![Channel][RowIndex] =
            Scratch(current_dim[Channel], NumSamples,
                    RawSample(Channel, frame.t, n) * VerticalGain(frame.t)
                      - VerticalOffset(frame.t))]
    ELSE samples

\* The sample dataset after the first k writes of the pass.
SamplesAfter(k) ==
  IF k >= 1
    THEN [samples EXCEPT ![Channel][RowIndex] =
            Scratch(current_dim[Channel], NumSamples, RawSample(Channel, frame.t, n))]
    ELSE samples

\* Mutant: the four calibration values written are those of the initial
\* descriptor, not those of the frame.
CalAfterInitial(k) ==
  IF k >= 2
    THEN [cal EXCEPT ![Channel][RowIndex] =
            [vert_offset  |-> VerticalOffset(0),
             vert_scale   |-> IF k >= 3 THEN VerticalGain(0) ELSE @.vert_scale,
             horiz_offset |-> IF k >= 4 THEN HorizOffset(0) ELSE @.horiz_offset,
             horiz_scale  |-> IF k >= 5 THEN HorizInterval(0) ELSE @.horiz_scale,
             trig_offset  |-> IF k >= 6 THEN TrgOffset(frame.t, n) ELSE @.trig_offset,
             trig_time    |-> IF k >= 7 THEN TrgTime(frame.t, n) ELSE @.trig_time]]
    ELSE cal

\* The scalar columns after the first k writes of the pass.
CalAfter(k) ==
  IF k >= 2
    THEN [cal EXCEPT ![Channel][RowIndex] =
            [vert_offset  |-> VerticalOffset(frame.t),
             vert_scale   |-> IF k >= 3 THEN VerticalGain(frame.t) ELSE @.vert_scale,
             horiz_offset |-> IF k >= 4 THEN HorizOffset(frame.t) ELSE @.horiz_offset,
             horiz_scale  |-> IF k >= 5 THEN HorizInterval(frame.t) ELSE @.horiz_scale,
             trig_offset  |-> IF k >= 6 THEN TrgOffset(frame.t, n) ELSE @.trig_offset,
             trig_time    |-> IF k >= 7 THEN TrgTime(frame.t, n) ELSE @.trig_time]]
    ELSE cal

\* Mutant: the store takes a row at any index.
RowAcceptedAnyIndex == current_dim[Channel] = DatasetWidth(Channel)

\* h5py accepts the row write: the index is a row of the dataset and the scratch
\* buffer is as wide as the dataset.
RowAccepted ==
  /\ RowIndex \in Rows
  /\ current_dim[Channel] = DatasetWidth(Channel)

\* Mutant: the cycle ends after the first channel's rows.
WriteRowEndsCycle ==
  /\ pc = "rows"
  /\ RowAccepted
  /\ samples' = SamplesAfter(NumCols)
  /\ cal' = CalAfter(NumCols)
  /\ IF n + 1 < sequence_count
       THEN /\ n' = n + 1
            /\ UNCHANGED <<pc, chIdx>>
       ELSE /\ n' = 0
            /\ chIdx' = NumChannels + 1
            /\ pc' = "advance"
  /\ UNCHANGED <<scope, argVars, cfgVars, current_dim, wave_array_count, seconds, i, frame,
                 cycles, ntrig, cycleTrig, histVars, finVars, ret, ops, utilVars, otherVars>>

\* One full pass of the inner for-loop (lines 272-282); after the last pass
\* the loop over the channels goes on, or the try body ends.
WriteRow ==
  /\ pc = "rows"
  /\ RowAccepted
  /\ samples' = SamplesAfter(NumCols)
  /\ cal' = CalAfter(NumCols)
  /\ IF n + 1 < sequence_count
       THEN /\ n' = n + 1
            /\ UNCHANGED <<pc, chIdx>>
       ELSE /\ n' = 0
            /\ chIdx' = chIdx + 1
            /\ pc' = IF chIdx < NumChannels THEN "fetch" ELSE "advance"
  /\ UNCHANGED <<scope, argVars, cfgVars, current_dim, wave_array_count, seconds, i, frame,
                 cycles, ntrig, cycleTrig, histVars, finVars, ret, ops, utilVars, otherVars>>

\* Mutant: i advances by the requested, not the applied, sequence count.
AdvanceByRequested ==
  /\ pc = "advance"
  /\ i' = i + nsequence
  /\ succ' = Append(succ, i)
  /\ pc' = "loop_head"
  /\ UNCHANGED <<scope, argVars, cfgVars, storeVars, chIdx, n, frame, cycles, ntrig,
                 cycleTrig, failures, fault, interrupted, finVars, ret, ops, utilVars, otherVars>>

\* i += sequence_count
Advance ==
  /\ pc = "advance"
  /\ i' = i + sequence_count
  /\ succ' = Append(succ, i)
  /\ pc' = "loop_head"
  /\ UNCHANGED <<scope, argVars, cfgVars, storeVars, chIdx, n, frame, cycles, ntrig, cycleTrig,
                 failures, fault, interrupted, finVars, ret, ops, utilVars, otherVars>>

\* Mutant: the exception is swallowed inside the cycle, which goes on to
\* i += sequence_count.
TransportFailureSwallowed ==
  /\ pc \in {"trigger", "fetch"}
  /\ failures < MaxFailures
  /\ failures' = failures + 1
  /\ fault' = "transport"
  /\ pc' = "advance"
  /\ scope' = [scope EXCEPT !.error = TRUE]
  /\ UNCHANGED <<argVars, cfgVars, storeVars, loopVars, interrupted,
                 succ, finVars, ret, ops, utilVars, otherVars>>

\* ------------------------------------------------- failures inside a cycle
\* Every exception raised in the try body of lines 248-284 is an Exception and
\* lands in the handler of line 286, whichever call raised it.
\* scope.trigger() or scope.get_waveform_all() raises (timeout, malformed reply).
TransportFailure ==
  /\ pc \in {"trigger", "fetch"}
  /\ failures < MaxFailures
  /\ failures' = failures + 1
  /\ fault' = "transport"
  /\ pc' = "handler"
  /\ scope' = [scope EXCEPT !.error = TRUE]
  /\ UNCHANGED <<argVars, cfgVars, storeVars, loopVars, interrupted,
                 succ, finVars, ret, ops, utilVars, otherVars>>

\* h5py rejects the write of the timestamp.
TimestampWriteFailure ==
  /\ pc = "ts_write"
  /\ failures < MaxFailures
  /\ failures' = failures + 1
  /\ fault' = "store"
  /\ pc' = "handler"
  /\ UNCHANGED <<scope, argVars, cfgVars, storeVars, loopVars, interrupted, succ,
                 finVars, ret, ops, utilVars, otherVars>>

\* get_waveform_all returns a frame wider than the dataset and dataset.resize
\* raises: current_dim was already raised on the line before.
ResizeFailure ==
  /\ pc = "fetch"
  /\ failures < MaxFailures
  /\ \E fr \in Frames(ntrig) :
       /\ current_dim[Channel] < NumSamplesOf(fr)
       /\ frame' = fr
       /\ current_dim' = [current_dim EXCEPT ![Channel] = NumSamplesOf(fr)]
  /\ failures' = failures + 1
  /\ fault' = "store"
  /\ pc' = "handler"
  /\ UNCHANGED <<scope, argVars, cfgVars, wave_array_count, samples, cal, seconds, i, chIdx, n, cycles,
                 ntrig, cycleTrig, interrupted, succ, finVars, ret, ops, utilVars, otherVars>>

\* h5py raises on write k+1 of a pass of the inner loop, after k writes.
RowWriteFailure ==
  /\ pc = "rows"
  /\ RowAccepted
  /\ failures < MaxFailures
  /\ \E k \in 0..(NumCols - 1) :
       /\ samples' = SamplesAfter(k)
       /\ cal' = CalAfter(k)
  /\ failures' = failures + 1
  /\ fault' = "store"
  /\ pc' = "handler"
  /\ UNCHANGED <<scope, argVars, cfgVars, current_dim, wave_array_count, seconds, loopVars, interrupted,
                 succ, finVars, ret, ops, utilVars, otherVars>>

\* h5py raises on the sample write because the row index is outside the
\* dataset or the scratch buffer is not as wide as the dataset.
RowRejected ==
  /\ pc = "rows"
  /\ ~RowAccepted
  /\ fault' = "store"
  /\ pc' = "handler"
  /\ UNCHANGED <<scope, argVars, cfgVars, storeVars, loopVars, failures, interrupted,
                 succ, finVars, ret, ops, utilVars, otherVars>>

\* Mutant: the handler retries without scope.clear().
HandlerRetriesUncleared ==
  /\ pc = "handler"
  /\ fault' = "none"
  /\ pc' = "loop_head"
  /\ UNCHANGED <<scope, argVars, cfgVars, storeVars, loopVars, failures, interrupted,
                 succ, finVars, ret, ops, utilVars, otherVars>>

\* Mutant: the handler gives the failed events up and moves on.
HandlerClearSkips ==
  /\ pc = "handler"
  /\ fault' = "none"
  /\ scope' = [scope EXCEPT !.error = FALSE]
  /\ i' = i + sequence_count
  /\ pc' = "loop_head"
  /\ UNCHANGED <<argVars, cfgVars, storeVars, chIdx, n, frame, cycles, ntrig,
                 cycleTrig, failures, interrupted, succ, finVars, ret, ops, utilVars, otherVars>>

\* except Exception as e: print(...); scope.clear(); continue
HandlerClear ==
  /\ pc = "handler"
  /\ fault' = "none"
  /\ pc' = "loop_head"
  /\ scope' = [scope EXCEPT !.error = FALSE]
  /\ UNCHANGED <<argVars, cfgVars, storeVars, loopVars, failures, interrupted,
                 succ, finVars, ret, ops, utilVars, otherVars>>

\* scope.clear() raises inside the handler: the exception leaves the inner try
\* and is caught by the bare except of line 291.
HandlerClearFails ==
  /\ pc = "handler"
  /\ fault' = "clear"
  /\ pc' = "finalize"
  /\ UNCHANGED <<scope, argVars, cfgVars, storeVars, loopVars, failures, interrupted, succ, finVars, ret, ops, utilVars, otherVars>>

TryPcs == {"loop_head", "ts_write", "trigger", "fetch", "rows",
           "advance", "handler"}

\* Mutant: the KeyboardInterrupt leaves fetchAndSaveFast, no finally block runs.
InterruptEscapes ==
  /\ pc \in TryPcs
  /\ interrupted' = TRUE
  /\ pc' = "crashed"
  /\ ret' = "raised"
  /\ UNCHANGED <<scope, argVars, cfgVars, storeVars, loopVars, failures, fault,
                 succ, finVars, ops, utilVars, otherVars>>

\* KeyboardInterrupt is no Exception: it passes the handler of line 286 and is
\* caught by the bare except of line 291, wherever in the try body it is raised.
Interrupt ==
  /\ pc \in TryPcs
  /\ interrupted' = TRUE
  /\ pc' = "finalize"
  /\ UNCHANGED <<scope, argVars, cfgVars, storeVars, loopVars, failures, fault,
                 succ, finVars, ret, ops, utilVars, otherVars>>

\* KeyboardInterrupt between two dataset writes of a pass of the inner loop.
InterruptInRow ==
  /\ pc = "rows"
  /\ RowAccepted
  /\ \E k \in 1..(NumCols - 1) :
       /\ samples' = SamplesAfter(k)
       /\ cal' = CalAfter(k)
  /\ interrupted' = TRUE
  /\ pc' = "finalize"
  /\ UNCHANGED <<scope, argVars, cfgVars, current_dim, wave_array_count, seconds, loopVars, failures, fault,
                 succ, finVars, ret, ops, utilVars, otherVars>>

\* Mutant: the statistics are computed whatever i is.
EnterFinallyAlwaysStats ==
  /\ pc = "finalize"
  /\ finalized' = TRUE
  /\ statsPrinted' = TRUE
  /\ chIdx' = 1
  /\ pc' = "summary"
  /\ UNCHANGED <<scope, argVars, cfgVars, storeVars, i, n, frame, cycles, ntrig, cycleTrig,
                 histVars, reported, closed, diskWrites, ret, ops, utilVars, otherVars>>

\* -------------------------------------------------------------- FINALIZING
\* finally: print("Closing the file"); if i > 0: "Completed i events ..."
EnterFinally ==
  /\ pc = "finalize"
  /\ finalized' = TRUE
  /\ statsPrinted' = (i > 0)
  /\ chIdx' = 1
  /\ pc' = IF i > 0 THEN "summary" ELSE "close"
  /\ UNCHANGED <<scope, argVars, cfgVars, storeVars, i, n, frame, cycles, ntrig, cycleTrig,
                 histVars, reported, closed, diskWrites, ret, ops, utilVars, otherVars>>

\* The dataset row the summary reads: index -1, the last row.
SummaryRow == nevents - 1

\* One pass of the summary loop of lines 299-316 that prints everything.
SummaryChannel ==
  /\ pc = "summary"
  /\ chIdx <= NumChannels
  /\ ~VertHorizSummaryRaises(cal[Channel][SummaryRow].horiz_scale)
  /\ reported' = reported \cup {Channel}
  /\ chIdx' = chIdx + 1
  /\ UNCHANGED <<pc, scope, argVars, cfgVars, storeVars, i, n, frame, cycles, ntrig, cycleTrig,
                 histVars, finalized, statsPrinted, closed, diskWrites, ret, ops, utilVars, otherVars>>

\* vert_horiz_summary raises: the exception leaves the finally block, and with
\* it fetchAndSaveFast, before f.close() and before the file is written.
SummaryFault ==
  /\ pc = "summary"
  /\ chIdx <= NumChannels
  /\ VertHorizSummaryRaises(cal[Channel][SummaryRow].horiz_scale)
  /\ pc' = "crashed"
  /\ ret' = "raised"
  /\ fault' = "summary"
  /\ UNCHANGED <<scope, argVars, cfgVars, storeVars, loopVars, failures, interrupted, succ, finVars, ops, utilVars, otherVars>>

SummaryDone ==
  /\ pc = "summary"
  /\ chIdx > NumChannels
  /\ pc' = "close"
  /\ UNCHANGED <<scope, argVars, cfgVars, storeVars, loopVars, histVars, finVars, ret, ops, utilVars, otherVars>>

\* f.close()
CloseFile ==
  /\ pc = "close"
  /\ closed' = TRUE
  /\ pc' = "write"
  /\ UNCHANGED <<scope, argVars, cfgVars, storeVars, loopVars, histVars, finalized,
                 statsPrinted, reported, diskWrites, ret, ops, utilVars, otherVars>>

\* Path(filename).write_bytes(buf.getvalue()); the function ends, returning None
WriteFile ==
  /\ pc = "write"
  /\ diskWrites' = diskWrites + 1
  /\ pc' = "done"
  /\ ret' = "None"
  /\ UNCHANGED <<scope, argVars, cfgVars, storeVars, loopVars, histVars, finalized,
                 statsPrinted, reported, closed, ops, utilVars, otherVars>>

FinalizePcs == {"finalize", "summary", "close", "write"}

\* --------------------------------------------------------- specifications
\* The steps fetchAndSaveFast takes when no call raises.
Step ==
  \/ Connect \/ SetupClear \/ SetupSequenceMode \/ SetupGetSettings
  \/ SetupSetSettings \/ SetupReread \/ GetChannels \/ OpenFile
  \/ CreateChannel \/ CreateTimestamps \/ EnterTry \/ LoopHead
  \/ WriteTimestamp \/ Trigger \/ FetchFrame \/ WriteRow
  \/ Advance \/ HandlerClear \/ EnterFinally
  \/ SummaryChannel \/ SummaryDone \/ CloseFile \/ WriteFile

\* The steps in which a call raises, by itself or because of the environment.
Fault ==
  \/ ConnectTimeout \/ ConnectFault \/ SetupFault \/ TransportFailure
  \/ TimestampWriteFailure \/ ResizeFailure \/ RowWriteFailure \/ RowRejected
  \/ HandlerClearFails \/ Interrupt \/ InterruptInRow \/ SummaryFault

Next == Step \/ Fault

Spec == Init /\ [][Next]_vars

\* The interpreter keeps running the single thread: a step that can be taken
\* is taken, unless a call raises instead.
Progress == Step \/ RowRejected \/ SummaryFault

FairSpec == Spec /\ WF_vars(Progress)

\* A session in which only the instrument link fails: the calls of a cycle
\* that go to the instrument raise now and then (TransportFailure), h5py raises
\* only where the code itself hands it a row it cannot take (RowRejected), and
\* nobody interrupts.
RetryNext == Step \/ TransportFailure \/ RowRejected

RetrySpec == Init /\ [][RetryNext]_vars /\ WF_vars(Step \/ RowRejected)

\* A session in which no call to the instrument raises and nobody interrupts:
\* the code's own steps, and h5py raising only where the code hands it a row it
\* cannot take.  The interpreter always takes the next step.
SteadyNext == Step \/ RowRejected

SteadySpec == Init /\ [][SteadyNext]_vars /\ WF_vars(SteadyNext)

\* ------------------------------------------------- helpers and entry point
\* The helper functions of fetchAndSaveFast.py and the command line parser of
\* cli.py, each run on an argument of its own.  A formatted number is the
\* record [scaled, decimals, suffix]: the text of scaled / 10^decimals with
\* that many decimals, followed by suffix.

mainVars == <<pc, scope, argVars, cfgVars, storeVars, loopVars, histVars, finVars, ret, ops>>

Abs(x) == IF x < 0 THEN -x ELSE x

RECURSIVE Pow10(_)
Pow10(e) == IF e <= 0 THEN 1 ELSE 10 * Pow10(e - 1)

\* round-half-to-even of a / b (b > 0, a >= 0), as float formatting rounds
RoundHalfEven(a, b) ==
  LET q == a \div b
      r == a % b
  IN  IF 2 * r > b \/ (2 * r = b /\ q % 2 = 1) THEN q + 1 ELSE q

\* ---- datasize_human_readable
size_units == <<"B", "KB", "MB", "GB", "TB", "PB">>

\* A size is the record [mant, exp], the number mant * 1024^exp: dividing by
\* 1024.0 is exact in binary floating point and lowers exp by one.
\* Mutant: the loop divides only while size_bytes > 1024.
AtLeast1024Strict(x) ==
  IF x.exp >= 1 THEN x.mant >= 1
  ELSE IF x.exp = 0 THEN x.mant > 1024
  ELSE IF x.exp = -1 THEN x.mant > 1024 * 1024
  ELSE FALSE

\* size_bytes >= 1024
AtLeast1024(x) ==
  IF x.exp >= 1 THEN x.mant >= 1
  ELSE IF x.exp = 0 THEN x.mant >= 1024
  ELSE IF x.exp = -1 THEN x.mant >= 1024 * 1024
  ELSE FALSE

\* while size_bytes >= 1024 and i < len(size_units) - 1: size_bytes /= 1024.0; i += 1
RECURSIVE DivideLoop(_, _)
DivideLoop(x, idx) ==
  IF AtLeast1024(x) /\ idx < Len(size_units) - 1
    THEN DivideLoop([x EXCEPT !.exp = @ - 1], idx + 1)
    ELSE [size_bytes |-> x, i |-> idx]

\* "{:.2f}".format(size_bytes): the hundredths of mant * 1024^exp, exp in {-1, 0}
Hundredths(x) ==
  IF x.exp = 0 THEN 100 * x.mant ELSE RoundHalfEven(100 * x.mant, 1024)

datasize_human_readable(size_bytes) ==
  LET r == DivideLoop(size_bytes, 0)
  IN  [scaled |-> Hundredths(r.size_bytes), decimals |-> 2,
       suffix |-> " " \o size_units[r.i + 1]]

\* The sizes tried: around every unit boundary, up to beyond the last unit.
SizeMantissas == {0, 1, 5, 1023, 1024, 1025, 1536, 2047, 1024 * 1024 - 1}
SizeInputs == [mant : SizeMantissas, exp : 0..(Len(size_units) - 1)]

\* ---- get_optimal_prefix
prefixes ==
  (24 :> "Y") @@ (21 :> "Z") @@ (18 :> "E") @@ (15 :> "P") @@ (12 :> "T") @@
  (9 :> "G") @@ (6 :> "M") @@ (3 :> "k") @@ (0 :> "") @@ (-3 :> "m") @@
  (-6 :> "u") @@ (-9 :> "n") @@ (-12 :> "p") @@ (-15 :> "f") @@ (-18 :> "a") @@
  (-21 :> "z") @@ (-24 :> "y")

\* A number is the record [sign, s, k, below]: sign * s * 10^k, s of at most
\* four digits, and when below is set the float just under it (smaller by a
\* relative 10^-13, as 999.9999999999 is under 1000).
RECURSIVE Digits(_)
Digits(s) == IF s < 10 THEN 1 ELSE 1 + Digits(s \div 10)

IsPowerOfTen(s) == s = Pow10(Digits(s) - 1)

\* floor(log10(abs(number))): log10 of a float just under 10^j is under j
FloorLog10(x) ==
  Digits(x.s) - 1 + x.k - (IF x.below /\ IsPowerOfTen(x.s) THEN 1 ELSE 0)

\* exp_exact = log10(abs(number)) // 3 * 3
ExpExact(x) == (FloorLog10(x) \div 3) * 3

\* exp_rounded = exp_exact if abs(exp_exact % 3) > tolerance else round(exp_exact):
\* exp_exact is a whole multiple of 3, so exp_exact % 3 is 0.0, never above the
\* tolerance, and round() returns exp_exact itself.
ExpRounded(x) ==
  IF Abs(ExpExact(x) % 3) >= 1 THEN ExpExact(x) ELSE ExpExact(x)

\* "{:.3f} {}".format(number / 10**exp, prefix); "0" for 0
get_optimal_prefix(number) ==
  IF number.s = 0
    THEN [scaled |-> 0, decimals |-> 0, suffix |-> ""]
    ELSE LET exp == ExpRounded(number)
             prefix == IF exp \in DOMAIN prefixes THEN prefixes[exp] ELSE ""
         IN  [scaled |-> number.sign * number.s * Pow10(number.k - exp + 3),
              decimals |-> 3, suffix |-> " " \o prefix]

\* The numbers tried: inside, at the ends of and outside the prefix table.
Significands == {1, 15, 999, 1000, 9999}
DecimalExponents == {-30, -27, -25, -24, -4, -3, -1, 0, 1, 3, 21, 23, 24, 25, 27}
NumberInputs ==
  [sign : {1, -1}, s : Significands, k : DecimalExponents, below : BOOLEAN]
    \cup {[sign |-> 1, s |-> 0, k |-> 0, below |-> FALSE]}

\* ---- parse_options and the __main__ block of fetchAndSaveFast.py
\* The parsed command line: the number of positional arguments and the option
\* values optparse hands back.
OptionInputs ==
  [nargs : 0..2, nevents : -1..3, nsequence : -1..3, quiet : 0..1, verbosity : 0..1]

\* sys.exit(message): the message goes to stderr, the exit status is 1
Exit(message) == [kind |-> "exit", status |-> 1, message |-> message]

\* Mutant: the divisibility of nevents by nsequence is not checked.
parse_options_unchecked(o) ==
  IF o.nargs < 1 THEN Exit("Usage")
  ELSE IF o.nevents < 1 \/ o.nsequence < 1 THEN Exit("Arguments to -s or -n must be positive")
  ELSE IF o.quiet > 0 /\ o.verbosity > 0 THEN Exit("Cannot use quiet and verbose option at the same time, use only one of them")
  ELSE [kind |-> "return", status |-> 0, message |-> ""]

\* cli.py lines 52-64
parse_options(o) ==
  IF o.nargs < 1 THEN Exit("Usage")
  ELSE IF o.nevents < 1 \/ o.nsequence < 1 THEN Exit("Arguments to -s or -n must be positive")
  ELSE IF o.nevents % o.nsequence # 0 THEN Exit("#events must be a multiplicity of #sequences")
  ELSE IF o.quiet > 0 /\ o.verbosity > 0 THEN Exit("Cannot use quiet and verbose option at the same time, use only one of them")
  ELSE [kind |-> "return", status |-> 0, message |-> ""]

\* ---- calls of the three functions
\* One call: callee is the function called, arg its argument; result holds what
\* it handed back once returned is set.  pc = "main" is the __main__ block
\* before fetchAndSaveFast is entered.
UtilInit ==
  /\ pc = "main"
  /\ scope = [error |-> FALSE, seq |-> 0, word16 |-> FALSE]
  /\ nevents = 0
  /\ nsequence = 0
  /\ save_in_16bits = TRUE
  /\ settings = [on |-> FALSE, n |-> 1]
  /\ warned = FALSE
  /\ sequence_count = 0
  /\ active_channels = << >>
  /\ current_dim = << >>
  /\ wave_array_count = << >>
  /\ samples = << >>
  /\ cal = << >>
  /\ seconds = << >>
  /\ i = 0
  /\ chIdx = 0
  /\ n = 0
  /\ frame = NoFrame
  /\ cycles = 0
  /\ ntrig = 0
  /\ cycleTrig = 0
  /\ failures = 0
  /\ fault = "none"
  /\ interrupted = FALSE
  /\ succ = << >>
  /\ finalized = FALSE
  /\ statsPrinted = FALSE
  /\ reported = {}
  /\ closed = FALSE
  /\ diskWrites = 0
  /\ ret = "pending"
  /\ ops = << >>
  /\ \/ callee = "datasize_human_readable" /\ arg \in SizeInputs
     \/ callee = "get_optimal_prefix" /\ arg \in NumberInputs
     \/ callee = "parse_options" /\ arg \in OptionInputs
  /\ result = 0
  /\ returned = FALSE
  /\ OtherIdle

\* datasize_human_readable(size_bytes)
CallDatasize ==
  /\ callee = "datasize_human_readable"
  /\ ~returned
  /\ result' = datasize_human_readable(arg)
  /\ returned' = TRUE
  /\ UNCHANGED <<mainVars, callee, arg, otherVars>>

\* get_optimal_prefix(number)
CallPrefix ==
  /\ callee = "get_optimal_prefix"
  /\ ~returned
  /\ result' = get_optimal_prefix(arg)
  /\ returned' = TRUE
  /\ UNCHANGED <<mainVars, callee, arg, otherVars>>

\* options, args = parse_options(args=sys.argv)
CallParseOptions ==
  /\ callee = "parse_options"
  /\ ~returned
  /\ pc = "main"
  /\ result' = parse_options(arg)
  /\ returned' = TRUE
  /\ UNCHANGED <<mainVars, callee, arg, otherVars>>

\* fetchAndSaveFast(filename=filename, ip=options.ip, nevents=options.nevents,
\*                  nsequence=options.nsequence, save_in_16bits=True, ...):
\* reached only when parse_options returned; sys.exit ends the process.
MainCall ==
  /\ pc = "main"
  /\ callee = "parse_options"
  /\ returned
  /\ result.kind = "return"
  /\ pc' = "connecting"
  /\ nevents' = arg.nevents
  /\ nsequence' = arg.nsequence
  /\ UNCHANGED <<scope, save_in_16bits, cfgVars, storeVars, loopVars, histVars, finVars, ret, ops, utilVars, otherVars>>

UtilNext == CallDatasize \/ CallPrefix \/ CallParseOptions \/ MainCall

UtilSpec == UtilInit /\ [][UtilNext]_vars

\* ------------------------------------------------------- fetchAndSaveSimple
\* fetchAndSaveSimple(filename, nevents, nsequence, ip) of fetchAndSaveSimple.py.
\* It runs on the variables of fetchAndSaveFast that it has too (scope, nevents,
\* nsequence, settings, sequence_count, active_channels as channels,
\* current_dim, samples as c<channel>_samples, the trig_time column of cal as
\* c<channel>_trig_time, i, n, frame) and on c_time; pc values start with "s_".
\* The value it returns is result.
SimpleInit ==
  /\ pc = "s_connecting"
  /\ scope \in [error : BOOLEAN, seq : {0}, word16 : {FALSE}]
  /\ nevents \in 1..MaxEvents
  /\ nsequence \in 1..MaxSeq
  /\ save_in_16bits = FALSE
  /\ settings = [on |-> FALSE, n |-> 1]
  /\ warned = FALSE
  /\ sequence_count = 0
  /\ active_channels = << >>
  /\ current_dim = << >>
  /\ wave_array_count = << >>
  /\ samples = << >>
  /\ cal = << >>
  /\ seconds = << >>
  /\ i = 0
  /\ chIdx = 0
  /\ n = 0
  /\ frame = NoFrame
  /\ cycles = 0
  /\ ntrig = 0
  /\ cycleTrig = 0
  /\ failures = 0
  /\ fault = "none"
  /\ interrupted = FALSE
  /\ succ = << >>
  /\ finalized = FALSE
  /\ statsPrinted = FALSE
  /\ reported = {}
  /\ closed = FALSE
  /\ diskWrites = 0
  /\ ret = "pending"
  /\ ops = << >>
  /\ callee = "fetchAndSaveSimple"
  /\ arg = 0
  /\ result = 0
  /\ returned = FALSE
  /\ OtherIdle

\* Lines 43-57: connect, scope.clear(), set_sequence_mode(nsequence),
\* get_channels(), get_settings() and the applied sequence count.
SimpleConfigure ==
  /\ pc = "s_connecting"
  /\ scope' = [scope EXCEPT !.error = FALSE, !.seq = nsequence]
  /\ \E chs \in ChannelLists : active_channels' = chs
  /\ \E s \in SequenceReplies :
       /\ settings' = s
       /\ sequence_count' = GetSequenceCount(s)
       /\ warned' = (nsequence # GetSequenceCount(s))
  /\ chIdx' = 1
  /\ pc' = "s_create"
  /\ UNCHANGED <<argVars, storeVars, i, n, frame, cycles, ntrig, cycleTrig,
                 histVars, finVars, ret, ops, utilVars, otherVars>>

\* One pass of "for channel in channels" (lines 64-76): get_wavedesc,
\* current_dim and the datasets c_samples, c_time (both nevents rows of
\* current_dim columns) and c_trig_time.
SimpleCreateChannel ==
  /\ pc = "s_create"
  /\ chIdx <= NumChannels
  /\ \E w \in Widths :
       LET dim == (sequence_count * w) \div sequence_count
       IN  /\ current_dim' = current_dim @@ (Channel :> dim)
           /\ samples' = samples @@ (Channel :> [r \in Rows |-> Zeros(dim)])
           /\ c_time' = c_time @@ (Channel :> [width |-> dim, rows |-> {}])
           /\ cal' = cal @@ (Channel :> [r \in Rows |-> EmptyCal])
  /\ chIdx' = chIdx + 1
  /\ UNCHANGED <<pc, scope, argVars, cfgVars, wave_array_count, seconds, i, n, frame,
                 cycles, ntrig, cycleTrig, histVars, finVars, ret, ops, utilVars,
                 scanVars, motionVars>>

\* try: i = 0
SimpleEnterTry ==
  /\ pc = "s_create"
  /\ chIdx > NumChannels
  /\ i' = 0
  /\ pc' = "s_loop_head"
  /\ UNCHANGED <<scope, argVars, cfgVars, storeVars, chIdx, n, frame, cycles, ntrig,
                 cycleTrig, histVars, finVars, ret, ops, utilVars, otherVars>>

\* Lines 43-77 are outside every try: an exception there leaves the function.
SimpleSetupFault ==
  /\ pc \in {"s_connecting", "s_create"}
  /\ pc' = "crashed"
  /\ ret' = "raised"
  /\ fault' = "setup"
  /\ UNCHANGED <<scope, argVars, cfgVars, storeVars, loopVars, failures, interrupted,
                 succ, finVars, ops, utilVars, otherVars>>

\* while i < nevents:
SimpleLoopHead ==
  /\ pc = "s_loop_head"
  /\ IF i < nevents
       THEN /\ cycles' = Sat(cycles)
            /\ cycleTrig' = 0
            /\ pc' = "s_trigger"
       ELSE /\ UNCHANGED <<cycles, cycleTrig>>
            /\ pc' = "s_finalize"
  /\ UNCHANGED <<scope, argVars, cfgVars, storeVars, i, chIdx, n, frame, ntrig,
                 histVars, finVars, ret, ops, utilVars, otherVars>>

\* scope.trigger()
SimpleTrigger ==
  /\ pc = "s_trigger"
  /\ ntrig' = Sat(ntrig)
  /\ cycleTrig' = cycleTrig + 1
  /\ chIdx' = 1
  /\ pc' = IF NumChannels = 0 THEN "s_advance" ELSE "s_fetch"
  /\ UNCHANGED <<scope, argVars, cfgVars, storeVars, i, n, frame, cycles,
                 histVars, finVars, ret, ops, utilVars, otherVars>>

\* Lines 87-94: get_waveform_all returns a frame; when it is wider than
\* current_dim, current_dim is raised and c_samples is resized (c_time is not);
\* then the reshape and the scratch buffer.
SimpleFetchFrame ==
  /\ pc = "s_fetch"
  /\ \E fr \in Frames(ntrig) :
       /\ frame' = fr
       /\ current_dim' = [current_dim EXCEPT ![Channel] = NextDim(@, NumSamplesOf(fr))]
       /\ samples' = IF current_dim[Channel] < NumSamplesOf(fr)
                       THEN [samples EXCEPT ![Channel] =
                               [r \in Rows |-> ResizeRow(@[r], NumSamplesOf(fr))]]
                       ELSE samples
  /\ n' = 0
  /\ pc' = "s_rows"
  /\ UNCHANGED <<scope, argVars, cfgVars, wave_array_count, cal, seconds, i, chIdx, cycles,
                 ntrig, cycleTrig, histVars, finVars, ret, ops, utilVars, otherVars>>

\* f[c_samples][i+n] = -vertical_offset + vertical_gain * scratch is accepted:
\* the row exists and the scratch buffer is as wide as the dataset.
SimpleSamplesAccepted ==
  /\ RowIndex \in Rows
  /\ current_dim[Channel] = DatasetWidth(Channel)

\* f[c_time][i+n] = np.linspace(trg_offsets[n], ..., num_samples) is accepted:
\* trg_offsets[n] exists and h5py can put num_samples values into a row of the
\* dataset (as many as its columns, or a single value, which it broadcasts).
SimpleTimeAccepted ==
  /\ frame.trg
  /\ (NumSamples = c_time[Channel].width \/ NumSamples = 1)

\* c_samples after line 98: the scratch buffer converted to physical units.
SimpleSamplesAfter ==
  [samples EXCEPT ![Channel][RowIndex] =
     [j \in 1..current_dim[Channel] |->
        VerticalGain(frame.t) * Scratch(current_dim[Channel], NumSamples,
                                        RawSample(Channel, frame.t, n))[j]
          - VerticalOffset(frame.t)]]

\* One pass of "for n in range(0, sequence_count)" (lines 96-100): the writes
\* of c_samples, c_time and c_trig_time at row i+n.
SimpleWriteRow ==
  /\ pc = "s_rows"
  /\ SimpleSamplesAccepted
  /\ SimpleTimeAccepted
  /\ samples' = SimpleSamplesAfter
  /\ c_time' = [c_time EXCEPT ![Channel].rows = @ \cup {RowIndex}]
  /\ cal' = [cal EXCEPT ![Channel][RowIndex].trig_time = TrgTime(frame.t, n)]
  /\ IF n + 1 < sequence_count
       THEN /\ n' = n + 1
            /\ UNCHANGED <<pc, chIdx>>
       ELSE /\ n' = 0
            /\ chIdx' = chIdx + 1
            /\ pc' = IF chIdx < NumChannels THEN "s_fetch" ELSE "s_advance"
  /\ UNCHANGED <<scope, argVars, cfgVars, current_dim, wave_array_count, seconds, i, frame,
                 cycles, ntrig, cycleTrig, histVars, finVars, ret, ops, utilVars,
                 scanVars, motionVars>>

\* A write of the pass raises: the row index is outside the dataset, or
\* trg_offsets[n] does not exist (IndexError), or h5py cannot put num_samples
\* values into the row of c_time (TypeError).  The sample row is written when
\* only a later statement of the pass raises.
SimpleRowRejected ==
  /\ pc = "s_rows"
  /\ ~(SimpleSamplesAccepted /\ SimpleTimeAccepted)
  /\ samples' = IF SimpleSamplesAccepted THEN SimpleSamplesAfter ELSE samples
  /\ fault' = "store"
  /\ pc' = "s_handler"
  /\ UNCHANGED <<scope, argVars, cfgVars, current_dim, wave_array_count, cal, seconds,
                 loopVars, failures, interrupted, succ, finVars, ret, ops, utilVars, otherVars>>

\* i += sequence_count
SimpleAdvance ==
  /\ pc = "s_advance"
  /\ i' = i + sequence_count
  /\ succ' = Append(succ, i)
  /\ pc' = "s_loop_head"
  /\ UNCHANGED <<scope, argVars, cfgVars, storeVars, chIdx, n, frame, cycles, ntrig, cycleTrig,
                 failures, fault, interrupted, finVars, ret, ops, utilVars, otherVars>>

\* scope.trigger() or scope.get_waveform_all() raises.
SimpleTransportFailure ==
  /\ pc \in {"s_trigger", "s_fetch"}
  /\ failures < MaxFailures
  /\ failures' = failures + 1
  /\ fault' = "transport"
  /\ pc' = "s_handler"
  /\ scope' = [scope EXCEPT !.error = TRUE]
  /\ UNCHANGED <<argVars, cfgVars, storeVars, loopVars, interrupted,
                 succ, finVars, ret, ops, utilVars, otherVars>>

\* except Exception as e: print(...); scope.clear(); continue
SimpleHandlerClear ==
  /\ pc = "s_handler"
  /\ fault' = "none"
  /\ pc' = "s_loop_head"
  /\ scope' = [scope EXCEPT !.error = FALSE]
  /\ UNCHANGED <<argVars, cfgVars, storeVars, loopVars, failures, interrupted,
                 succ, finVars, ret, ops, utilVars, otherVars>>

\* scope.clear() raises inside the handler: the exception is no
\* KeyboardInterrupt, so it stays pending while the finally block runs.
SimpleHandlerClearFails ==
  /\ pc = "s_handler"
  /\ fault' = "clear"
  /\ pc' = "s_finalize"
  /\ UNCHANGED <<scope, argVars, cfgVars, storeVars, loopVars, failures, interrupted,
                 succ, finVars, ret, ops, utilVars, otherVars>>

SimpleTryPcs == {"s_loop_head", "s_trigger", "s_fetch", "s_rows", "s_advance", "s_handler"}

\* except KeyboardInterrupt: print('User interrupted fetch early')
SimpleInterrupt ==
  /\ pc \in SimpleTryPcs
  /\ interrupted' = TRUE
  /\ fault' = "none"
  /\ pc' = "s_finalize"
  /\ UNCHANGED <<scope, argVars, cfgVars, storeVars, loopVars, failures,
                 succ, finVars, ret, ops, utilVars, otherVars>>

\* finally: f.close()
SimpleClose ==
  /\ pc = "s_finalize"
  /\ finalized' = TRUE
  /\ closed' = TRUE
  /\ pc' = "s_clear"
  /\ UNCHANGED <<scope, argVars, cfgVars, storeVars, loopVars, histVars, statsPrinted,
                 reported, diskWrites, ret, ops, utilVars, otherVars>>

\* scope.clear(); return i: the return in the finally block drops a pending
\* exception.
SimpleReturn ==
  /\ pc = "s_clear"
  /\ scope' = [scope EXCEPT !.error = FALSE]
  /\ fault' = "none"
  /\ result' = i
  /\ returned' = TRUE
  /\ ret' = "returned"
  /\ pc' = "done"
  /\ UNCHANGED <<argVars, cfgVars, storeVars, loopVars, failures, interrupted, succ,
                 finVars, ops, callee, arg, otherVars>>

\* scope.clear() raises in the finally block: "return i" is not reached and
\* the exception leaves the function.
SimpleFinalClearFails ==
  /\ pc = "s_clear"
  /\ fault' = "clear"
  /\ ret' = "raised"
  /\ pc' = "crashed"
  /\ UNCHANGED <<scope, argVars, cfgVars, storeVars, loopVars, failures, interrupted, succ,
                 finVars, ops, utilVars, otherVars>>

\* The steps fetchAndSaveSimple takes when no call to the instrument raises
\* and nobody interrupts.
SimpleStep ==
  \/ SimpleConfigure \/ SimpleCreateChannel \/ SimpleEnterTry \/ SimpleLoopHead
  \/ SimpleTrigger \/ SimpleFetchFrame \/ SimpleWriteRow \/ SimpleRowRejected
  \/ SimpleAdvance \/ SimpleHandlerClear \/ SimpleClose \/ SimpleReturn

SimpleFault ==
  \/ SimpleSetupFault \/ SimpleTransportFailure \/ SimpleHandlerClearFails
  \/ SimpleInterrupt \/ SimpleFinalClearFails

SimpleNext == SimpleStep \/ SimpleFault

SimpleSpec == SimpleInit /\ [][SimpleNext]_vars /\ WF_vars(SimpleStep)

\* A session of fetchAndSaveSimple in which the instrument never fails.
SimpleSteadySpec == SimpleInit /\ [][SimpleStep]_vars /\ WF_vars(SimpleStep)

\* --------------------------------------------------- measureRateScanAndSave
\* The scan script of measureRateScanAndSave.py (its __main__ block): a grid
\* of stage positions, one measurement and one line of the results text file
\* per position, and the restart of an interrupted scan with --resume.  pc
\* values start with "scan_"; the variables of fetchAndSaveFast stay idle.
\* Positions are in hundredths of a millimetre.
XSteps == 2
YSteps == 2
\* Most values the rates dictionary of one measurement holds.
MaxRates == 2
\* Most starts of the script: the first one and the restarts with --resume.
MaxRuns == 3

\* xMin, xMax, yMin, yMax, in hundredths of a millimetre.
XMin == -2500
XMax == 2000
YMin == -2000
YMax == 2000

\* np.linspace(start, stop, num)
linspace(start, stop, num) ==
  [k \in 1..num |-> start + ((k - 1) * (stop - start)) \div (num - 1)]

xes == linspace(XMin, XMax, XSteps)
yes == linspace(YMin, YMax, YSteps)

\* list(seq).index(v), counted from 0; it raises ValueError when v is absent.
IndexRaises(seq, v) == \A k \in 1..Len(seq) : seq[k] # v
Index(seq, v) ==
  (CHOOSE k \in 1..Len(seq) : seq[k] = v /\ \A j \in 1..(k - 1) : seq[j] # v) - 1

\* A line of the text file is its tab separated tokens and whether its
\* newline was written; a token is the text of a float or a word.
Num(v) == [word |-> FALSE, v |-> v]
Word(k) == [word |-> TRUE, v |-> k]

\* 'x\ty\trates\n'
Header == [tokens |-> <<Word(1), Word(2), Word(3)>>, nl |-> TRUE]

\* file.write(text): text continues the last line when that has no newline yet.
FileWrite(f, toks, newline) ==
  IF f # << >> /\ ~f[Len(f)].nl
  THEN [f EXCEPT ![Len(f)] = [tokens |-> @.tokens \o toks, nl |-> newline]]
  ELSE Append(f, [tokens |-> toks, nl |-> newline])

\* last_line = file.readlines()[-1]
LastLine(f) == f[Len(f)]

\* Lines 201-203: float(val) for every token of the last line raises
\* ValueError on a word, last_coord[1] raises IndexError on a line of fewer
\* than two tokens, and index() raises ValueError on a value off the grid.
ResumeRaises(f) ==
  LET t == LastLine(f).tokens
  IN  \/ \E k \in 1..Len(t) : t[k].word
      \/ Len(t) < 2
      \/ IndexRaises(xes, t[1].v)
      \/ IndexRaises(yes, t[2].v)

\* fetchAndSaveFast is not running.
FetchIdle ==
  /\ scope = [error |-> FALSE, seq |-> 0, word16 |-> FALSE]
  /\ nevents = 1
  /\ nsequence = 1
  /\ save_in_16bits = FALSE
  /\ settings = [on |-> FALSE, n |-> 1]
  /\ warned = FALSE
  /\ sequence_count = 0
  /\ active_channels = << >>
  /\ current_dim = << >>
  /\ wave_array_count = << >>
  /\ samples = << >>
  /\ cal = << >>
  /\ seconds = << >>
  /\ i = 0
  /\ chIdx = 0
  /\ n = 0
  /\ frame = NoFrame
  /\ cycles = 0
  /\ ntrig = 0
  /\ cycleTrig = 0
  /\ failures = 0
  /\ fault = "none"
  /\ interrupted = FALSE
  /\ succ = << >>
  /\ finalized = FALSE
  /\ statsPrinted = FALSE
  /\ reported = {}
  /\ closed = FALSE
  /\ diskWrites = 0
  /\ ret = "pending"
  /\ ops = << >>

fetchVars == <<scope, argVars, cfgVars, storeVars, loopVars, histVars, finVars, ret, ops>>

ScanInit ==
  /\ pc = "scan_start"
  /\ FetchIdle
  /\ callee = "measureRateScanAndSave"
  /\ arg = 0
  /\ result = 0
  /\ returned = FALSE
  /\ OtherIdle

\* The script started without --resume (lines 217-268): the grid, xlast = 0,
\* ylast = 0 and a text file that holds the header.
ScanBegin ==
  /\ pc = "scan_start"
  /\ file' = FileWrite(<< >>, Header.tokens, TRUE)
  /\ xlast' = 0
  /\ ylast' = 0
  /\ runs' = 1
  /\ pc' = "scan_motors"
  /\ UNCHANGED <<fetchVars, utilVars, simpleVars, xidx, yidx, rates, at, motionVars>>

\* The script started again with --resume (lines 186-215): xlast and ylast
\* from the last line of the text file, which is then deleted.  An exception
\* here is outside every try.
ScanResume ==
  /\ pc = "scan_exited"
  /\ runs < MaxRuns
  /\ runs' = runs + 1
  /\ IF ResumeRaises(file)
     THEN /\ pc' = "scan_crashed"
          /\ UNCHANGED <<file, xlast, ylast>>
     ELSE /\ xlast' = Index(xes, LastLine(file).tokens[1].v)
          /\ ylast' = Index(yes, LastLine(file).tokens[2].v)
          /\ file' = SubSeq(file, 1, Len(file) - 1)
          /\ pc' = "scan_motors"
  /\ UNCHANGED <<fetchVars, utilVars, simpleVars, xidx, yidx, rates, at, motionVars>>

\* Lines 270-278: the stage is brought to its initial position and the outer
\* loop starts at xes[xlast:].
ScanMotors ==
  /\ pc = "scan_motors"
  /\ xidx' = xlast
  /\ at' = NoPoint
  /\ pc' = "scan_x"
  /\ UNCHANGED <<fetchVars, utilVars, simpleVars, file, xlast, ylast, yidx, rates, runs,
                 motionVars>>

\* for x in xes[xlast:]: the next column starts at yes[ylast:]; after the
\* last column the finally block runs.
ScanNextX ==
  /\ pc = "scan_x"
  /\ IF xidx < XSteps
     THEN /\ yidx' = ylast
          /\ pc' = "scan_y"
     ELSE /\ pc' = "scan_finally"
          /\ UNCHANGED yidx
  /\ UNCHANGED <<fetchVars, utilVars, simpleVars, file, xlast, ylast, xidx, rates, runs, at,
                 motionVars>>

\* for y in yes[ylast:]: the next point, or "ylast = 0" (line 306) after the
\* last point of the column.
ScanNextY ==
  /\ pc = "scan_y"
  /\ IF yidx < YSteps
     THEN /\ pc' = "scan_move"
          /\ UNCHANGED <<ylast, xidx>>
     ELSE /\ ylast' = 0
          /\ xidx' = xidx + 1
          /\ pc' = "scan_x"
  /\ UNCHANGED <<fetchVars, utilVars, simpleVars, file, xlast, yidx, rates, runs, at,
                 motionVars>>

\* motors.moveTo(x=x, y=y)
ScanMove ==
  /\ pc = "scan_move"
  /\ pc' = "scan_write"
  /\ UNCHANGED <<fetchVars, utilVars, simpleVars, scanVars, motionVars>>

\* file.write(f'{x}\t{y}\t') and the HDF5 file of the point (lines 285-291).
ScanWritePoint ==
  /\ pc = "scan_write"
  /\ file' = FileWrite(file, <<Num(xes[xidx + 1]), Num(yes[yidx + 1])>>, FALSE)
  /\ pc' = "scan_measure"
  /\ UNCHANGED <<fetchVars, utilVars, simpleVars, xlast, ylast, xidx, yidx, rates, runs, at,
                 motionVars>>

\* rates = measure(h5f, ntrig, ntrig, options.ip): one value per channel, or
\* the dictionary of zeros measure returns when an exception stopped it.
ScanMeasure ==
  /\ pc = "scan_measure"
  /\ \E r \in 1..MaxRates : rates' = r
  /\ pc' = "scan_rates"
  /\ UNCHANGED <<fetchVars, utilVars, simpleVars, file, xlast, ylast, xidx, yidx, runs, at,
                 motionVars>>

\* One pass of "for c,r in rates.items()": file.write(f'{rate_val}\t')
ScanWriteRate ==
  /\ pc = "scan_rates"
  /\ rates > 0
  /\ file' = FileWrite(file, <<Num(0)>>, FALSE)
  /\ rates' = rates - 1
  /\ UNCHANGED <<pc, fetchVars, utilVars, simpleVars, xlast, ylast, xidx, yidx, runs, at,
                 motionVars>>

\* file.write('\n') and the next y.
ScanEndLine ==
  /\ pc = "scan_rates"
  /\ rates = 0
  /\ file' = FileWrite(file, << >>, TRUE)
  /\ yidx' = yidx + 1
  /\ pc' = "scan_y"
  /\ UNCHANGED <<fetchVars, utilVars, simpleVars, xlast, ylast, xidx, rates, runs, at,
                 motionVars>>

\* The user interrupts the scan at the point (xidx, yidx): while the stage
\* moves to it, while it is measured (measure re-raises KeyboardInterrupt) or
\* while its line is written.  Only the finally block runs.
ScanInterrupt ==
  /\ pc \in {"scan_move", "scan_write", "scan_measure", "scan_rates"}
  /\ runs < MaxRuns
  /\ at' = [x |-> xidx, y |-> yidx]
  /\ rates' = 0
  /\ pc' = "scan_finally"
  /\ UNCHANGED <<fetchVars, utilVars, simpleVars, file, xlast, ylast, xidx, yidx, runs,
                 motionVars>>

\* finally: file.close(); motors.goHome(); sys.exit(0)
ScanExit ==
  /\ pc = "scan_finally"
  /\ pc' = "scan_exited"
  /\ UNCHANGED <<fetchVars, utilVars, simpleVars, scanVars, motionVars>>

ScanNext ==
  \/ ScanBegin \/ ScanResume \/ ScanMotors \/ ScanNextX \/ ScanNextY \/ ScanMove
  \/ ScanWritePoint \/ ScanMeasure \/ ScanWriteRate \/ ScanEndLine \/ ScanInterrupt
  \/ ScanExit

ScanSpec == ScanInit /\ [][ScanNext]_vars

\* ------------------------------------------------------------------ motion
\* The class motion of motion.py, not emulated: sendCommand and moveTo on a
\* serial line to the stage controller.  pc values start with "mo_".  The
\* controller and the line are the environment: the controller answers the
\* commands it received in their order with a line that starts with the
\* index of the command, or ignores them, and a line that is arriving while
\* reset_input_buffer() runs loses its head.  A line is the record of its
\* kind ("reply": a whole reply; "fragment": longer than one character and
\* not starting with a digit; "empty": at most one character), of its
\* leading index digit and of whether it answers the command of the
\* sendCommand call that is running (history).
\* Most commands the controller holds, and most lines the input buffer holds.
MaxPending == 2
\* Saturation point of counterOfAttempt.
MaxAttempts == 2

\* A new call: what the line still holds answers earlier commands.
Earlier(q) == [k \in 1..Len(q) |-> [q[k] EXCEPT !.current = FALSE]]

\* What remains of a line whose head reset_input_buffer() discarded.
Fragment(line) == [line EXCEPT !.kind = "fragment"]

\* len(readStr) > 1 and int(readStr[0]) == self.commandIndex: int() raises
\* ValueError when the first character is not a digit.
CheckRaises(line) == line.kind = "fragment"
IndexMatches(line, index) == line.kind = "reply" /\ line.index = index

MotionInit ==
  /\ pc = "mo_idle"
  /\ FetchIdle
  /\ callee = "motion"
  /\ arg = 0
  /\ result = 0
  /\ returned = FALSE
  /\ OtherIdle

\* Lines 28-37 of sendCommand, called with self.commandIndex = index.
SendCommandFrom(index, body, returnImmediately) ==
  /\ pc = "mo_idle"
  /\ commandIndex' = (index + 1) % 10
  /\ command' = [index |-> commandIndex', body |-> body]
  /\ pending' = Earlier(pending)
  /\ inbuf' = Earlier(inbuf)
  /\ IF returnImmediately
     THEN /\ reply' = NoReply
          /\ pc' = "mo_idle"
          /\ UNCHANGED counterOfAttempt
     ELSE /\ counterOfAttempt' = 0
          /\ pc' = "mo_reset"
          /\ UNCHANGED reply
  /\ UNCHANGED <<fetchVars, utilVars, simpleVars, scanVars, readStr>>

\* sendCommand(command, returnImmediately)
SendCommand ==
  \E body \in {"g", "r", "p"}, returnImmediately \in BOOLEAN :
    SendCommandFrom(commandIndex, body, returnImmediately)

\* moveTo (lines 61-63): it advances self.commandIndex itself and then calls
\* sendCommand with the "g" command.
MoveTo ==
  \E returnImmediately \in BOOLEAN :
    SendCommandFrom((commandIndex + 1) % 10, "g", returnImmediately)

\* self.ser.reset_input_buffer()
ResetInput ==
  /\ pc = "mo_reset"
  /\ \/ inbuf' = << >>
     \/ /\ inbuf # << >>
        /\ inbuf' = <<Fragment(inbuf[Len(inbuf)])>>
  /\ pc' = "mo_write"
  /\ UNCHANGED <<fetchVars, utilVars, simpleVars, scanVars, commandIndex, command,
                 counterOfAttempt, readStr, pending, reply>>

\* self.ser.write(command.encode()): the controller receives the command
\* unless it holds MaxPending commands already.
Write ==
  /\ pc = "mo_write"
  /\ pending' = IF Len(pending) < MaxPending
                THEN Append(pending, [kind |-> "reply", index |-> command.index,
                                      current |-> TRUE])
                ELSE pending
  /\ pc' = "mo_read"
  /\ UNCHANGED <<fetchVars, utilVars, simpleVars, scanVars, commandIndex, command,
                 counterOfAttempt, readStr, inbuf, reply>>

\* The controller answers the oldest command it holds.
ControllerAnswers ==
  /\ pc \in {"mo_idle", "mo_reset", "mo_write", "mo_read", "mo_check"}
  /\ pending # << >>
  /\ Len(inbuf) < MaxPending
  /\ inbuf' = Append(inbuf, Head(pending))
  /\ pending' = Tail(pending)
  /\ UNCHANGED <<pc, fetchVars, utilVars, simpleVars, scanVars, commandIndex, command,
                 counterOfAttempt, readStr, reply>>

\* The controller ignores the oldest command it holds.
ControllerIgnores ==
  /\ pc \in {"mo_idle", "mo_reset", "mo_write", "mo_read", "mo_check"}
  /\ pending # << >>
  /\ pending' = Tail(pending)
  /\ UNCHANGED <<pc, fetchVars, utilVars, simpleVars, scanVars, commandIndex, command,
                 counterOfAttempt, readStr, inbuf, reply>>

\* sleep(2*self.timeout); readStr = self.ser.readline().decode(): the oldest
\* line of the input buffer, or '' when the timeout passed without one.
ReadLine ==
  /\ pc = "mo_read"
  /\ IF inbuf = << >>
     THEN /\ readStr' = [kind |-> "empty", index |-> 0, current |-> FALSE]
          /\ UNCHANGED inbuf
     ELSE /\ readStr' = Head(inbuf)
          /\ inbuf' = Tail(inbuf)
  /\ pc' = "mo_check"
  /\ UNCHANGED <<fetchVars, utilVars, simpleVars, scanVars, commandIndex, command,
                 counterOfAttempt, pending, reply>>

\* Lines 44-46: the line carries the index of the command: it is returned.
ReplyAccepted ==
  /\ pc = "mo_check"
  /\ ~CheckRaises(readStr)
  /\ IndexMatches(readStr, commandIndex)
  /\ reply' = readStr
  /\ pc' = "mo_idle"
  /\ UNCHANGED <<fetchVars, utilVars, simpleVars, scanVars, commandIndex, command,
                 counterOfAttempt, readStr, pending, inbuf>>

\* Lines 47-52: counterOfAttempt += 1 and the next pass of "while (True)".
ReplyRejected ==
  /\ pc = "mo_check"
  /\ ~CheckRaises(readStr)
  /\ ~IndexMatches(readStr, commandIndex)
  /\ counterOfAttempt' = IF counterOfAttempt < MaxAttempts THEN counterOfAttempt + 1
                         ELSE MaxAttempts
  /\ pc' = "mo_reset"
  /\ UNCHANGED <<fetchVars, utilVars, simpleVars, scanVars, commandIndex, command,
                 readStr, pending, inbuf, reply>>

\* int(readStr[0]) raises ValueError (line 44), which leaves sendCommand.
ReplyMalformed ==
  /\ pc = "mo_check"
  /\ CheckRaises(readStr)
  /\ pc' = "mo_crashed"
  /\ UNCHANGED <<fetchVars, utilVars, simpleVars, scanVars, motionVars>>

MotionNext ==
  \/ SendCommand \/ MoveTo \/ ResetInput \/ Write \/ ControllerAnswers
  \/ ControllerIgnores \/ ReadLine \/ ReplyAccepted \/ ReplyRejected \/ ReplyMalformed

MotionSpec == MotionInit /\ [][MotionNext]_vars

\* ------------------------------------------------------------------ claims
Finalizing == pc \in FinalizePcs

\* The capture loop was left: the finally block is about to run, runs or ran.
LoopExited == Finalizing \/ (pc \in {"done", "crashed"} /\ finalized)

\* The scalar columns of sub-trace k of trigger t, all written.
CalOf(t, k) ==
  [vert_offset  |-> VerticalOffset(t),
   vert_scale   |-> VerticalGain(t),
   horiz_offset |-> HorizOffset(t),
   horiz_scale  |-> HorizInterval(t),
   trig_offset  |-> IF settings.on THEN TrgOffset(t, k) ELSE 0,
   trig_time    |-> IF settings.on THEN TrgTime(t, k) ELSE 0]

\* Row r of channel ch holds sub-trace k of trigger t and nothing else.
RowHolds(ch, r, t, k) ==
  /\ r \in Rows
  /\ samples[ch][r][1] = RawSample(ch, t, k)
  /\ \A j \in 1..Len(samples[ch][r]) : samples[ch][r][j] \in {RawSample(ch, t, k), 0}
  /\ cal[ch][r] = CalOf(t, k)

\* C1: when the instrument applies the requested sequence count and no call
\* of a cycle raises, no cycle fails, and once the loop is left without an
\* interrupt it has run exactly nevents / sequence_count trigger cycles and
\* every row 0..nevents-1 of every active channel holds the samples and the
\* calibration columns of its trigger.
C1_CompleteRun ==
  (sequence_count = nsequence /\ failures = 0) =>
    /\ pc # "handler"
    /\ (LoopExited /\ ~interrupted) =>
         /\ i = nevents
         /\ cycles = nevents \div sequence_count
         /\ ntrig = nevents \div sequence_count
         /\ \A c \in 1..NumChannels : \A r \in Rows :
              RowHolds(active_channels[c], r, (r \div sequence_count) + 1,
                       r % sequence_count)

C1_Witness ==
  /\ pc = "done"
  /\ ret = "None"
  /\ failures = 0
  /\ ~interrupted
  /\ sequence_count = nsequence
  /\ nsequence = 2
  /\ nevents = 2
  /\ NumChannels = 2

\* The rows of the cycle at i hold the frames fetched after the latest trigger.
CycleComplete ==
  \A c \in 1..NumChannels : \A k \in 0..(sequence_count - 1) :
    RowHolds(active_channels[c], i + k, ntrig, k)

\* C2: i changes only by growing by exactly the applied sequence count, at the
\* end of an iteration that issued one trigger and wrote the rows of every
\* active channel; a step into the handler and the handler itself leave i
\* as it is, so the retry runs at the same i.
C2_IndexAdvance ==
  [][/\ (i' # i) => /\ pc = "advance"
                    /\ i' = i + sequence_count
                    /\ cycleTrig = 1
                    /\ CycleComplete
     /\ (pc' = "handler" \/ pc = "handler") => i' = i]_vars

C2_Witness ==
  /\ pc = "ts_write"
  /\ failures = 1
  /\ Len(succ) = 2
  /\ cycles = 4
  /\ i = 2 * sequence_count

\* The applied sequence count divides nevents.
Divides == sequence_count > 0 /\ nevents % sequence_count = 0

\* The row indices covered by the cycles that completed.
Covered == UNION {succ[k]..(succ[k] + sequence_count - 1) : k \in DOMAIN succ}

\* The completed cycles start at 0 and each starts where the one before ended:
\* strictly increasing, no gap, no row covered twice.
GapFree ==
  /\ Len(succ) > 0 => succ[1] = 0
  /\ \A k \in 1..(Len(succ) - 1) : succ[k + 1] = succ[k] + sequence_count
  /\ i = Len(succ) * sequence_count

\* C3: when calls to the instrument fail and then stop failing (and the applied
\* sequence count divides nevents), the failed cycle is attempted again and
\* completes at the same i, the session ends with i = nevents, and the
\* completed cycles cover the rows 0..nevents-1 in increasing order, without a
\* gap and without covering a row twice.
C3_RetryCompletes ==
  /\ [](GapFree)
  /\ \A v \in 0..MaxEvents :
       (pc = "handler" /\ i = v /\ Divides) ~> (pc = "advance" /\ i = v)
  /\ (pc = "loop_head" /\ Divides) ~>
       (pc = "done" /\ i = nevents /\ Covered = Rows)

C3_Witness ==
  /\ pc = "done"
  /\ failures = 1
  /\ nevents = 3
  /\ i = nevents
  /\ cycles = 4
  /\ Covered = Rows

\* C4: a failure of a call to the instrument inside a cycle is handled by
\* clearing the instrument and retrying at the same i, however many attempts
\* were made before (only a failing clear or an interrupt ends the retrying);
\* every attempt starts with the instrument's error state cleared, and when a
\* cycle completes its rows hold the data of the successful attempt only.
C4_TransportRecoverable ==
  /\ [][(/\ pc = "handler"
         /\ fault = "transport"
         /\ pc' # "handler"
         /\ fault' # "clear"
         /\ ~interrupted')
        => (pc' = "loop_head" /\ i' = i /\ ~scope'.error)]_vars
  /\ [](pc \in {"ts_write", "trigger", "fetch", "rows", "advance"} => ~scope.error)
  /\ [](pc = "advance" => CycleComplete)

C4_Witness ==
  /\ pc = "advance"
  /\ failures = 1
  /\ fault = "none"
  /\ ~scope.error
  /\ NumChannels = 2
  /\ sequence_count = 2
  /\ ntrig = Len(succ) + 2

\* C5: a store failure raised inside a cycle is fatal: it never reaches the
\* retry handler, the session goes on to finalize.
C5_StoreFailureFatal ==
  fault = "store" => (Finalizing \/ pc \in {"done", "crashed"})

\* C6: an interrupt raised during capture moves the session to the finally
\* block at once, and the session then ends with the in-memory file closed and
\* written to the output file, whatever i was reached.
C6_InterruptPersists ==
  interrupted =>
    /\ LoopExited
    /\ pc \in {"done", "crashed"} => (closed /\ diskWrites = 1 /\ ret = "None")

\* C7: at finalize 0 <= i <= nevents, and finalize is entered without an
\* exception propagating.
C7_IndexInRange ==
  Finalizing => (0 <= i /\ i <= nevents /\ ret = "pending")

\* C8: a connection that times out ends the session at once: 0 is returned,
\* the instrument was not configured, no dataset was created, the finally
\* block did not run and nothing was written to disk.
C8_ConnectTimeout ==
  fault = "timeout" =>
    /\ pc = "done"
    /\ ret = "0"
    /\ scope.seq = 0
    /\ ~scope.word16
    /\ sequence_count = 0
    /\ samples = << >>
    /\ seconds = << >>
    /\ ~finalized
    /\ ~closed
    /\ diskWrites = 0

C8_Witness ==
  /\ fault = "timeout"
  /\ pc = "done"
  /\ nevents = 3

\* The state of the session's state machine a position belongs to; an exception
\* that propagates out of fetchAndSaveFast leaves the state machine ("FAULT").
Phase(p) ==
  CASE p = "connecting" -> "CONNECTING"
    [] p \in SetupPcs -> "CONFIGURING"
    [] p \in TryPcs -> "CAPTURING"
    [] p \in FinalizePcs -> "FINALIZING"
    [] p = "done" -> "DONE"
    [] OTHER -> "FAULT"

Transitions ==
  {<<"CONNECTING", "CONFIGURING">>, <<"CONFIGURING", "CAPTURING">>,
   <<"CAPTURING", "CAPTURING">>, <<"CAPTURING", "FINALIZING">>,
   <<"FINALIZING", "DONE">>, <<"CONNECTING", "DONE">>}

C10_EarlyEndReports ==
  (pc \in {"done", "crashed"} /\ fault \notin {"timeout", "connect"}) =>
    /\ finalized
    /\ ret = "None"
    /\ i > 0 => (statsPrinted /\ reported = {active_channels[c] : c \in 1..NumChannels})

\* C11: the row width current_dim[channel] starts at the initial
\* wave_array_count // applied sequence count, never shrinks, changes only when
\* a fetched frame reports a strictly greater num_samples and then becomes
\* exactly that num_samples; and the column count of the channel's sample
\* dataset always equals current_dim[channel].
C11_WidthMonotone ==
  /\ [][\A ch \in DOMAIN current_dim' :
          IF ch \in DOMAIN current_dim
            THEN /\ current_dim'[ch] >= current_dim[ch]
                 /\ current_dim'[ch] # current_dim[ch] =>
                      /\ pc = "fetch"
                      /\ ch = Channel
                      /\ frame'.wac \div sequence_count > current_dim[ch]
                      /\ current_dim'[ch] = frame'.wac \div sequence_count
            ELSE current_dim'[ch] = wave_array_count'[ch] \div sequence_count]_vars
  /\ [](\A ch \in DOMAIN current_dim : DatasetWidth(ch) = current_dim[ch])

\* C12: growing a channel's sample dataset keeps, in every row of every
\* channel, the columns the row had, grows that channel's rows to exactly the
\* frame's num_samples and touches no scalar column; a frame whose num_samples
\* is not greater than the current width causes no resize; and a row write
\* changes no row but the one it writes.
C12_ResizePreserves ==
  [][/\ (pc = "fetch" /\ pc' = "rows") =>
          LET num_samples == frame'.wac \div sequence_count
          IN  /\ cal' = cal
              /\ seconds' = seconds
              /\ \A ch \in DOMAIN samples : \A r \in Rows :
                   \A j \in 1..Len(samples[ch][r]) :
                     samples'[ch][r][j] = samples[ch][r][j]
              /\ num_samples > current_dim[Channel] =>
                   \A r \in Rows : Len(samples'[Channel][r]) = num_samples
              /\ num_samples <= current_dim[Channel] =>
                   (samples' = samples /\ current_dim' = current_dim)
     /\ pc = "rows" =>
          \A ch \in DOMAIN samples : \A r \in Rows :
            (ch # Channel \/ r # i + n) =>
              (samples'[ch][r] = samples[ch][r] /\ cal'[ch][r] = cal[ch][r])]_vars

C12_Witness ==
  /\ pc = "rows"
  /\ failures = 0
  /\ Len(succ) = 1
  /\ ntrig = 2
  /\ n = 0
  /\ wave_array_count[Channel] = sequence_count
  /\ NumSamples = 2
  /\ current_dim[Channel] = 2
  /\ samples[Channel][0] = <<RawSample(Channel, 1, 0), 0>>
  /\ cal[Channel][0].vert_scale = VerticalGain(1)

\* The smaller of two numbers.
Min(a, b) == IF a <= b THEN a ELSE b

\* A step that completes one pass of the inner for-loop: all writes of row i+n.
RowWritten == pc = "rows" /\ pc' \notin {"handler", "finalize"}

\* C13 (as stated): a row write copies min(len(samples), currentWidth) samples
\* into the row from column 0 and leaves every remaining column of the row at
\* the value it held before the write.
C13_WriteRowKeepsTail ==
  [][RowWritten =>
       LET w == current_dim[Channel]
           num_samples == frame.wac \div sequence_count
       IN  /\ Len(samples'[Channel][i + n]) = w
           /\ \A j \in 1..w :
                samples'[Channel][i + n][j] =
                  IF j <= Min(num_samples, w)
                    THEN RawSample(Channel, frame.t, n)
                    ELSE samples[Channel][i + n][j]]_vars

\* C13 (amended): a row write copies min(len(samples), currentWidth) samples
\* into the row from column 0 and sets every remaining column of the row to 0,
\* whatever the row held before: the scratch buffer starts as zeros.
C13_WriteRowZeroPads ==
  [][RowWritten =>
       LET w == current_dim[Channel]
           num_samples == frame.wac \div sequence_count
       IN  /\ Len(samples'[Channel][i + n]) = w
           /\ \A j \in 1..w :
                samples'[Channel][i + n][j] =
                  IF j <= Min(num_samples, w)
                    THEN RawSample(Channel, frame.t, n)
                    ELSE 0]_vars

\* Row i was rewritten by a narrower frame and is zero beyond it, while row
\* i+1 still holds the wider sub-trace of the attempt that failed.
C13_Witness ==
  /\ pc = "rows"
  /\ failures = 1
  /\ n = 1
  /\ i + 1 \in Rows
  /\ NumSamples = 1
  /\ current_dim[Channel] = 2
  /\ samples[Channel][i] = <<RawSample(Channel, ntrig, 0), 0>>
  /\ samples[Channel][i + 1] = <<RawSample(Channel, ntrig - 1, 1), RawSample(Channel, ntrig - 1, 1)>>

\* C14: the vertical offset, vertical scale, horizontal offset and horizontal
\* scale stored in a row i+n are those of the descriptor that came with the
\* frame written to that row, and that frame is the one fetched for the same
\* channel after the latest trigger: when a cycle is complete all its rows
\* hold the four values of that cycle's trigger.
C14_CalibrationOfTrigger ==
  /\ [][RowWritten =>
          /\ frame.t = ntrig
          /\ cal'[Channel][i + n].vert_offset = VerticalOffset(frame.t)
          /\ cal'[Channel][i + n].vert_scale = VerticalGain(frame.t)
          /\ cal'[Channel][i + n].horiz_offset = HorizOffset(frame.t)
          /\ cal'[Channel][i + n].horiz_scale = HorizInterval(frame.t)]_vars
  /\ [](pc = "advance" =>
          \A c \in 1..NumChannels : \A k \in 0..(sequence_count - 1) :
            LET row == cal[active_channels[c]][i + k]
            IN  <<row.vert_offset, row.vert_scale, row.horiz_offset, row.horiz_scale>>
                  = <<VerticalOffset(ntrig), VerticalGain(ntrig),
                      HorizOffset(ntrig), HorizInterval(ntrig)>>)

\* The second cycle is complete on two channels: its rows hold the values of
\* the second trigger, the rows of the first cycle those of the first.
C14_Witness ==
  /\ pc = "advance"
  /\ failures = 0
  /\ NumChannels = 2
  /\ ntrig = 2
  /\ i = sequence_count
  /\ cal[2][i].horiz_scale = HorizInterval(2)
  /\ cal[2][0].horiz_scale = HorizInterval(1)
  /\ cal[1][i].vert_offset = VerticalOffset(2)

\* C15: the timestamp column is indexed by trigger number: it has one row per
\* trigger cycle (nevents / sequence_count rows) and the k-th trigger cycle
\* (k from 0, k cycles completed before it) writes its value at position k.
C15_TimestampByTrigger ==
  /\ (seconds # << >> /\ Divides) =>
       Cardinality(DOMAIN seconds) = nevents \div sequence_count
  /\ pc = "ts_write" => TimestampIndex = Len(succ)

\* C16: an applied sequence count that differs from the requested one does not
\* abort the session: unless a call raises, configuration goes on to the
\* channel query, the warning is printed exactly when the two counts differ,
\* and the applied count alone gives the initial row width, the num_samples of
\* every frame, the number of sub-traces written per frame and the step of i.
C16_AppliedCountGoverns ==
  /\ [][/\ (pc = "setup_reread" /\ fault' = "none") =>
             /\ pc' = "get_channels"
             /\ ret' = "pending"
             /\ sequence_count' = GetSequenceCount(settings')
             /\ warned' = (sequence_count' # nsequence)
        /\ (pc = "open_store" /\ chIdx' # chIdx) =>
             current_dim'[Channel] = wave_array_count'[Channel] \div sequence_count
        /\ (pc = "fetch" /\ pc' = "rows") =>
             current_dim'[Channel] >= frame'.wac \div sequence_count
        /\ RowWritten =>
             /\ \A j \in 1..(frame.wac \div sequence_count) :
                  samples'[Channel][i + n][j] = RawSample(Channel, frame.t, n)
             /\ (chIdx' # chIdx) = (n = sequence_count - 1)
        /\ i' # i => i' = i + sequence_count]_vars
  /\ [](sequence_count > 0 => warned = (sequence_count # nsequence))

\* A session that asked for 1 and was given 2 sub-traces per trigger and
\* completed, every row written.
C16_Witness ==
  /\ pc = "done"
  /\ ret = "None"
  /\ warned
  /\ nsequence = 1
  /\ sequence_count = 2
  /\ nevents = 2
  /\ i = nevents
  /\ NumChannels = 1
  /\ samples[1][1][1] = RawSample(1, 1, 1)

\* The instrument operations of a complete setup_scope, in order.
SetupOps ==
  IF save_in_16bits
    THEN <<"clear", "set_sequence_mode", "get_settings", "set_settings", "get_settings">>
    ELSE <<"clear", "set_sequence_mode", "get_settings">>

IsPrefix(a, b) == Len(a) <= Len(b) /\ \A k \in 1..Len(a) : a[k] = b[k]

\* C17: setup_scope issues clear, then set_sequence_mode(nsequence), then, only
\* when save_in_16bits is set, get_settings and set_settings (COMM_FORMAT
\* changed), and last get_settings, from which the applied sequence count is n
\* for "ON,<n>" and 1 otherwise; no trigger and no waveform fetch is issued
\* before all of them returned.
C17_SetupOrder ==
  /\ IsPrefix(ops, SetupOps)
  /\ Len(ops) >= 2 => scope.seq = nsequence
  /\ Len(ops) < 2 => scope.seq = 0
  /\ scope.word16 => (save_in_16bits /\ Len(ops) >= 4)
  /\ sequence_count > 0 =>
       /\ ops = SetupOps
       /\ sequence_count = (IF settings.on THEN settings.n ELSE 1)
  /\ (ntrig > 0 \/ cycleTrig > 0 \/ frame # NoFrame \/ pc \in TryPcs) =>
       (ops = SetupOps /\ sequence_count > 0)

C17_Witness ==
  /\ pc = "get_channels"
  /\ save_in_16bits
  /\ ops = SetupOps
  /\ scope.word16
  /\ scope.seq = nsequence
  /\ settings = [on |-> TRUE, n |-> 2]
  /\ sequence_count = 2
  /\ ntrig = 0

\* C18: opening the store creates for each active channel a sample dataset of
\* nevents rows and wave_array_count // sequence_count columns, six scalar
\* columns of nevents rows, and one timestamp column of nevents rows; the row
\* count never changes and no write lands on a row outside 0..nevents-1.
C18_StoreShape ==
  /\ [](\A ch \in DOMAIN samples :
          /\ DOMAIN samples[ch] = Rows
          /\ ch \in DOMAIN cal /\ DOMAIN cal[ch] = Rows
          /\ \A r \in Rows : DOMAIN cal[ch][r] = DOMAIN EmptyCal)
  /\ [](seconds # << >> => DOMAIN seconds = Rows)
  /\ [](pc = "try" =>
          /\ DOMAIN seconds = Rows
          /\ \A c \in 1..NumChannels : \A r \in Rows :
               /\ samples[active_channels[c]][r] =
                    Zeros(wave_array_count[active_channels[c]] \div sequence_count)
               /\ cal[active_channels[c]][r] = EmptyCal)
  /\ [][/\ RowWritten => i + n \in Rows
        /\ (pc = "ts_write" /\ pc' = "trigger") => i \in Rows
        /\ (pc = "fetch" /\ pc' = "rows") =>
             \A r \in Rows : Len(samples'[Channel][r]) >= Len(samples[Channel][r])]_vars

\* The store of two channels, three events and different widths, just opened.
C18_Witness ==
  /\ pc = "try"
  /\ nevents = 3
  /\ NumChannels = 2
  /\ sequence_count = 2
  /\ wave_array_count[1] = 4
  /\ wave_array_count[2] = 2
  /\ samples[1][2] = <<0, 0>>
  /\ samples[2][2] = <<0>>
  /\ seconds = [r \in 0..2 |-> 0]

\* C19: nothing is written to the output file before the finally block, the
\* finally block writes the buffer exactly once, after the in-memory file was
\* closed, and every session whose capture ended, however it ended, finishes
\* with that one write done.
C19_SingleBulkWrite ==
  /\ diskWrites <= 1
  /\ diskWrites = 1 => (finalized /\ closed)
  /\ pc \in SetupPcs \cup TryPcs \cup {"connecting"} => diskWrites = 0
  /\ (finalized /\ pc \in {"done", "crashed"}) => diskWrites = 1

\* The physical value recovered from the stored columns: s * g - o.
Recovered(ch, r, j) ==
  samples[ch][r][j] * cal[ch][r].vert_scale - cal[ch][r].vert_offset

\* C20: a row write stores the raw values the instrument delivered for
\* sub-trace n of the trigger, unconverted, and no later step changes a stored
\* sample or a calibration column of a completed row (index < i), so the value
\* s * g - o recomputed from the stored columns stays the same.
C20_RawPersisted ==
  /\ [][RowWritten =>
          \A j \in 1..Min(frame.wac \div sequence_count, current_dim[Channel]) :
            samples'[Channel][i + n][j] = RawSample(Channel, frame.t, n)]_vars
  /\ [][\A ch \in DOMAIN samples : \A r \in Rows :
          r < i =>
            /\ cal'[ch][r] = cal[ch][r]
            /\ \A j \in 1..Len(samples[ch][r]) :
                 /\ samples'[ch][r][j] = samples[ch][r][j]
                 /\ Recovered(ch, r, j)' = Recovered(ch, r, j)]_vars

\* A completed session: row 0 was written at width 1 and widened afterwards,
\* and still holds the first trigger's raw sample and calibration.
C20_Witness ==
  /\ pc = "done"
  /\ ret = "None"
  /\ i = nevents
  /\ nevents = 2
  /\ sequence_count = 1
  /\ NumChannels = 1
  /\ wave_array_count[1] = 1
  /\ samples[1][0] = <<RawSample(1, 1, 0), 0>>
  /\ samples[1][1] = <<RawSample(1, 2, 0), RawSample(1, 2, 0)>>
  /\ Recovered(1, 0, 1) = RawSample(1, 1, 0) * VerticalGain(1) - VerticalOffset(1)

\* Row r of channel ch was never written.
RowUntouched(ch, r) ==
  /\ \A j \in 1..Len(samples[ch][r]) : samples[ch][r][j] = 0
  /\ cal[ch][r] = EmptyCal

\* C21: an interrupt is honoured only between trigger cycles, so a session
\* that no failure disturbed and an interrupt ended reaches the finally block
\* with every row at index >= i as the store was created: no row holds data of
\* a cycle that was abandoned after its trigger.
C21_CancelBetweenCycles ==
  (Finalizing /\ interrupted /\ failures = 0 /\ Divides) =>
    \A c \in 1..NumChannels : \A r \in Rows :
      r >= i => RowUntouched(active_channels[c], r)

\* floor(log1024 n) for n = mant * 1024^exp >= 1 (mant is below 1024^2), capped
\* at the last unit; 0 for n = 0
UnitIndexOf(x) ==
  IF x.mant = 0 THEN 0
  ELSE Min((IF x.mant < 1024 THEN 0 ELSE 1) + x.exp, 5)

\* C22: datasize_human_readable(n) reports n divided by 1024^u with two
\* decimals and the unit of index u = min(floor(log1024 n), 5) (0 for n = 0)
\* out of B, KB, MB, GB, TB, PB; 0 gives 0.00 B, 1536 gives 1.50 KB and
\* 5*1024^3 gives 5.00 GB.
C22_UnitIndex ==
  (callee = "datasize_human_readable" /\ returned) =>
    LET u == UnitIndexOf(arg) IN
    /\ result.suffix = " " \o <<"B", "KB", "MB", "GB", "TB", "PB">>[u + 1]
    /\ result.decimals = 2
    /\ result.scaled = IF arg.exp = u THEN 100 * arg.mant
                                      ELSE RoundHalfEven(100 * arg.mant, 1024)
    /\ (arg = [mant |-> 0, exp |-> 0]) =>
         result = [scaled |-> 0, decimals |-> 2, suffix |-> " B"]
    /\ (arg = [mant |-> 1536, exp |-> 0]) =>
         result = [scaled |-> 150, decimals |-> 2, suffix |-> " KB"]
    /\ (arg = [mant |-> 5, exp |-> 3]) =>
         result = [scaled |-> 500, decimals |-> 2, suffix |-> " GB"]

C22_Witness ==
  /\ callee = "datasize_human_readable"
  /\ returned
  /\ arg = [mant |-> 1024, exp |-> 5]
  /\ result = [scaled |-> 102400, decimals |-> 2, suffix |-> " PB"]

\* The number is 10^j for a j that is a multiple of 3 inside the prefix table,
\* or the float just under it.
AtBoundary(x, j) ==
  /\ x.s # 0
  /\ IsPowerOfTen(x.s)
  /\ Digits(x.s) - 1 + x.k = j
  /\ j % 3 = 0
  /\ j \in DOMAIN prefixes

\* C23: a value within the tolerance below a bucket boundary resolves to the
\* higher bucket, as the boundary itself does: 1000 gives 1.000 k and
\* 999.9999999999 gives 1.000 k too, while 999 gives 999.000 with no prefix.
C23_ToleranceRoundsUp ==
  (callee = "get_optimal_prefix" /\ returned) =>
    /\ \A j \in DOMAIN prefixes :
         AtBoundary(arg, j) =>
           result = [scaled |-> arg.sign * 1000, decimals |-> 3,
                     suffix |-> " " \o prefixes[j]]
    /\ (arg = [sign |-> 1, s |-> 999, k |-> 0, below |-> FALSE]) =>
         result = [scaled |-> 999000, decimals |-> 3, suffix |-> " "]

\* p thousandths is what "{:.3f}" prints for the number x itself, not scaled
\* (numbers from 10^7 on exceed every p that is printed here, numbers under
\* 10^-13 print as 0.000).
PrintsUnscaled(p, x) ==
  LET e == x.k + 3 IN
  IF e >= 10 THEN FALSE
  ELSE IF e <= -10 THEN p = 0
  ELSE IF e >= 0 THEN p = x.sign * x.s * Pow10(e)
  ELSE p = x.sign * RoundHalfEven(x.s, Pow10(-e))

\* C24: a value whose multiple-of-3 exponent is outside the prefix table (above
\* 24 or below -24) is returned unscaled, with the empty prefix.
C24_OutOfTablePassThrough ==
  (callee = "get_optimal_prefix" /\ returned /\ arg.s # 0
     /\ (ExpExact(arg) > 24 \/ ExpExact(arg) < -24)) =>
    /\ result.suffix = " "
    /\ result.decimals = 3
    /\ PrintsUnscaled(result.scaled, arg)

\* The option values parse_options accepts.
ValidOptions(o) ==
  /\ o.nevents >= 1
  /\ o.nsequence >= 1
  /\ o.nevents % o.nsequence = 0
  /\ ~(o.quiet > 0 /\ o.verbosity > 0)

\* C25: parse_options returns only when nevents >= 1, nsequence >= 1,
\* nevents % nsequence = 0 and quiet and verbose are not both given; otherwise
\* the process exits with a message and a non-zero status, and no connection
\* to the instrument is attempted.
C25_ValidatedBeforeConnect ==
  callee = "parse_options" =>
    /\ returned =>
         /\ result.kind = "return" => ValidOptions(arg)
         /\ ~ValidOptions(arg) =>
              /\ result.kind = "exit"
              /\ result.status # 0
              /\ result.message # ""
              /\ pc = "main"
    /\ pc # "main" => (returned /\ result.kind = "return" /\ ValidOptions(arg))

C25_Witness ==
  /\ callee = "parse_options"
  /\ returned
  /\ arg.nargs = 2 /\ arg.nevents = 3 /\ arg.nsequence = 2
  /\ arg.quiet = 0 /\ arg.verbosity = 0
  /\ result.kind = "exit"
  /\ result.status = 1
  /\ pc = "main"

\* C26: whenever FINALIZING is entered, on every path into it, the instrument
\* error state is cleared and the store is closed by the time the session has
\* left it.
C26_FinalizeClearsAndCloses ==
  (finalized /\ pc \in {"done", "crashed"}) => (~scope.error /\ closed)

\* C27: a cycle issues exactly one trigger, before any of its fetches; the
\* channels are fetched once each in the order of active_channels, a channel's
\* rows being written before the next channel is fetched; the next cycle (and
\* so the next trigger) starts only after the cycle completed for all channels
\* or failed.
C27_RequestResponse ==
  /\ [](cycleTrig \in 0..1)
  /\ [][/\ cycleTrig' # cycleTrig =>
             \/ pc = "trigger" /\ cycleTrig = 0 /\ cycleTrig' = 1 /\ chIdx' = 1
             \/ pc = "loop_head" /\ pc' = "ts_write" /\ cycleTrig' = 0
        /\ (pc = "fetch" /\ pc' = "rows") =>
             /\ cycleTrig = 1
             /\ chIdx \in 1..NumChannels
             /\ n' = 0
             /\ frame'.t = ntrig
        /\ (pc \in TryPcs /\ chIdx' # chIdx) =>
             \/ pc = "trigger" /\ chIdx' = 1
             \/ /\ pc = "rows" /\ n = sequence_count - 1
                /\ chIdx' = chIdx + 1
                /\ pc' = IF chIdx < NumChannels THEN "fetch" ELSE "advance"
        /\ (pc' = "fetch" /\ pc # "fetch") => pc \in {"trigger", "rows"}
        /\ (pc' = "advance" /\ pc # "advance") =>
             (cycleTrig' = 1 /\ chIdx' = NumChannels + 1)
        /\ (pc' = "loop_head" /\ pc # "loop_head") =>
             pc \in {"try", "advance", "handler"}
        /\ (pc' = "ts_write" /\ pc # "ts_write") => pc = "loop_head"
        /\ (pc' = "trigger" /\ pc # "trigger") => (pc = "ts_write" /\ cycleTrig = 0)
       ]_vars

C27_Witness ==
  /\ pc = "advance"
  /\ NumChannels = 2
  /\ sequence_count = 2
  /\ cycleTrig = 1
  /\ chIdx = 3
  /\ frame.t = 1
  /\ \A c \in 1..2 : \A r \in 0..1 : RowHolds(active_channels[c], r, 1, r)

\* C28: the trig_offset and trig_time columns of row i+n are written only when
\* the instrument supplied the values for the frame; without them the pass of
\* the row loop completes all the same, the two columns keep what they held,
\* and the cycle goes on to i += sequence_count.
C28_TriggerColumnsOptional ==
  /\ [][/\ RowWritten =>
             LET old == cal[Channel][RowIndex]
                 new == cal'[Channel][RowIndex]
             IN  IF frame.trg
                   THEN /\ new.trig_offset = TrgOffset(frame.t, n)
                        /\ new.trig_time = TrgTime(frame.t, n)
                   ELSE /\ new.trig_offset = old.trig_offset
                        /\ new.trig_time = old.trig_time
                        /\ new.horiz_scale = HorizInterval(frame.t)
        /\ pc \in TryPcs =>
             \A c \in 1..NumChannels : \A r \in Rows :
               LET ch == active_channels[c] IN
               (\/ cal'[ch][r].trig_offset # cal[ch][r].trig_offset
                \/ cal'[ch][r].trig_time # cal[ch][r].trig_time) =>
                 (pc = "rows" /\ frame.trg /\ c = chIdx /\ r = RowIndex)
       ]_vars
  /\ [](( /\ LoopExited /\ ~interrupted /\ failures = 0
          /\ ~settings.on /\ pc # "crashed") => i >= nevents)

C28_Witness ==
  /\ pc = "done"
  /\ ~settings.on
  /\ NumChannels = 2
  /\ i = nevents
  /\ nevents = MaxEvents
  /\ \A c \in 1..2 : \A r \in Rows :
       /\ cal[active_channels[c]][r].trig_offset = 0
       /\ cal[active_channels[c]][r].trig_time = 0
       /\ cal[active_channels[c]][r].horiz_scale # 0

\* C29: when the finally block is reached with i = 0, no elapsed-time or
\* per-event statistic is computed (nothing is divided by i) and no channel
\* summary is printed; the store is still closed and the file still written.
C29_NoStatsAtZero ==
  (finalized /\ i = 0) =>
    /\ ~statsPrinted
    /\ reported = {}
    /\ pc \in {"close", "write", "done"}
    /\ pc \in {"write", "done"} => closed
    /\ pc = "done" => (diskWrites = 1 /\ ret = "None")

C29_Witness ==
  /\ pc = "done"
  /\ finalized
  /\ i = 0
  /\ interrupted
  /\ ntrig = 1
  /\ closed
  /\ diskWrites = 1

\* Block b (rows b*sequence_count .. (b+1)*sequence_count - 1) holds, for every
\* active channel, the sub-traces of one and the same trigger t.
BlockOfTrigger(b, t) ==
  \A c \in 1..NumChannels : \A k \in 0..(sequence_count - 1) :
    RowHolds(active_channels[c], b * sequence_count + k, t, k)

\* C30: between cycles, inside them and in the finally block, every row below i
\* of every active channel holds the samples and the calibration values that
\* one cycle, completed for all channels, wrote; no row below i carries what a
\* failed or abandoned cycle left.
C30_RowsBelowIndexComplete ==
  (pc \in TryPcs \cup FinalizePcs \cup {"done"} /\ i > 0) =>
    /\ i % sequence_count = 0
    /\ Len(succ) = i \div sequence_count
    /\ \A b \in 0..(i \div sequence_count - 1) :
         /\ succ[b + 1] = b * sequence_count
         /\ \E t \in 1..MaxCount : BlockOfTrigger(b, t)

C30_Witness ==
  /\ pc = "loop_head"
  /\ failures = 1
  /\ fault = "none"
  /\ NumChannels = 2
  /\ i = 2
  /\ sequence_count = 1
  /\ BlockOfTrigger(0, 1)
  /\ BlockOfTrigger(1, 3)

\* C31: with an instrument that never fails the capture loop is left in the
\* end, whatever sequence count the instrument applied, also one that differs
\* from the requested count and does not divide nevents.
C31_LoopTerminates == <>LoopExited

\* C32: when the finally block runs with 0 < i < nevents, the row the summary
\* reads the calibration values from was written by a completed cycle (its
\* index is below i), and the summary does not keep the session from closing
\* the store and writing the file.
C32_SummaryReadsCompleted ==
  (finalized /\ 0 < i /\ i < nevents /\ NumChannels > 0) =>
    /\ SummaryRow < i
    /\ pc # "crashed"
    /\ pc = "done" => (closed /\ diskWrites = 1)

\* C33: when scope.clear() itself raises in the handler of a failed cycle, the
\* cycle is not retried and the session does not crash: it goes to the finally
\* block with i as it is, finalizes, and no exception leaves fetchAndSaveFast.
C33_ClearFailureFinalizes ==
  [][/\ (pc = "handler" /\ fault' = "clear") =>
          (pc' = "finalize" /\ i' = i /\ ret' = ret)
     /\ fault = "clear" =>
          (pc' \in FinalizePcs \cup {"done"} /\ i' = i /\ ret' # "raised")
    ]_vars

\* C34: in the capture loop i is a non-negative multiple of the applied
\* sequence count; a cycle's timestamp is stored before its trigger is issued;
\* a retry overwrites the slot, so a completed cycle's slot holds the timestamp
\* of the attempt that succeeded, it is not changed afterwards, and the stored
\* timestamps of the completed cycles do not decrease in cycle order.
C34_TimestampOfSuccess ==
  /\ [](pc \in TryPcs =>
          (i >= 0 /\ sequence_count >= 1 /\ i % sequence_count = 0))
  /\ [](pc \in {"trigger", "fetch", "rows", "advance"} => seconds[i] = cycles)
  /\ [](\A a \in 1..Len(succ) : \A b \in 1..Len(succ) :
          a < b => (1 <= seconds[succ[a]] /\ seconds[succ[a]] <= seconds[succ[b]]))
  /\ [][/\ (pc' = "trigger" /\ pc # "trigger") =>
             (pc = "ts_write" /\ seconds'[i] = cycles)
        /\ ntrig' # ntrig => (pc = "trigger" /\ seconds[i] = cycles)
        /\ Len(succ') > Len(succ) =>
             (succ'[Len(succ')] = i /\ seconds'[i] = cycles)
        /\ \A a \in 1..Len(succ) : seconds'[succ[a]] = seconds[succ[a]]
       ]_vars

C34_Witness ==
  /\ pc = "loop_head"
  /\ failures = 1
  /\ sequence_count = 1
  /\ succ = <<0, 1>>
  /\ seconds[0] = 1
  /\ seconds[1] = 3

\* C35: whenever a frame raises current_dim[channel], every per-sample dataset
\* of the channel (in fetchAndSaveSimple: c_samples and c_time) is resized to
\* the new width before the next row is written, so that the row writes of the
\* cycle are accepted.
C35_ResizeBeforeWrite ==
  [][(pc = "s_fetch" /\ pc' = "s_rows" /\ current_dim'[Channel] > current_dim[Channel]) =>
       /\ Len(samples'[Channel][0]) = current_dim'[Channel]
       /\ c_time'[Channel].width = current_dim'[Channel]
       /\ NumSamplesOf(frame') = c_time'[Channel].width
    ]_vars

\* C36: with an instrument that never fails, fetchAndSaveSimple terminates and
\* returns nevents, also in non-sequence mode (applied sequence count 1), where
\* the instrument supplies no trigger times and no trigger offsets.
C36_SimpleCompletes ==
  (pc = "s_create" /\ ~settings.on) ~> (pc = "done" /\ returned /\ result = nevents)

\* C37: once the capture loop of fetchAndSaveSimple was entered, the function
\* always returns i, the number of events completed, with 0 <= i <= nevents and
\* i a multiple of the applied sequence count, after closing the file and
\* clearing the instrument: after a complete run, after an interrupt and after
\* an exception that escaped the loop.
C37_SimpleReturnsCount ==
  /\ (pc = "crashed" /\ callee = "fetchAndSaveSimple") => fault = "setup"
  /\ (pc = "done" /\ callee = "fetchAndSaveSimple") =>
       /\ returned /\ result = i
       /\ 0 <= i /\ i <= nevents
       /\ i % sequence_count = 0
       /\ closed
       /\ ~scope.error

\* The results file of a whole scan: the header and one finished line per
\* grid point, x outer and y inner.
ScanFileComplete ==
  /\ Len(file) = 1 + XSteps * YSteps
  /\ file[1] = Header
  /\ \A k \in 1..(XSteps * YSteps) :
       /\ file[k + 1].nl
       /\ Len(file[k + 1].tokens) >= 3
       /\ file[k + 1].tokens[1] = Num(xes[((k - 1) \div YSteps) + 1])
       /\ file[k + 1].tokens[2] = Num(yes[((k - 1) % YSteps) + 1])

\* C38: a scan interrupted at any grid point and restarted with --resume
\* continues at the interrupted point, and the scan that ran to its end left
\* the header and exactly one line per grid point in scan order (x outer, y
\* inner); after the first resumed column y restarts from index 0.
C38_ResumeContinues ==
  /\ pc # "scan_crashed"
  /\ (pc = "scan_motors" /\ runs > 1) => (xlast = at.x /\ ylast = at.y)
  /\ (pc = "scan_exited" /\ at = NoPoint) => ScanFileComplete
  /\ (pc \in {"scan_x", "scan_y", "scan_move"} /\ xidx > xlast) => ylast = 0

\* C39: sendCommand returns only a reply whose leading digit is the index,
\* a value in 0..9, of the command it just sent, and never the reply to an
\* earlier command; on any other line, or none, it sends the same command
\* with the same index again, however often that happened before.
C39_OnlyMatchingReply ==
  /\ [](commandIndex \in 0..9)
  /\ [](pc \in {"mo_reset", "mo_write", "mo_read", "mo_check"} => command.index = commandIndex)
  /\ [][(pc = "mo_check" /\ pc' = "mo_idle") =>
          /\ reply' = readStr
          /\ readStr.kind = "reply"
          /\ readStr.index = command.index
          /\ readStr.current]_vars
  /\ [][(pc = "mo_check" /\ pc' # "mo_check" /\ ~IndexMatches(readStr, commandIndex)) =>
          /\ pc' = "mo_reset"
          /\ command' = command
          /\ commandIndex' = commandIndex]_vars
  /\ [][(pc = "mo_write" /\ pc' # "mo_write") =>
          /\ pc' = "mo_read"
          /\ Len(pending) < MaxPending =>
               pending'[Len(pending')] = [kind |-> "reply", index |-> commandIndex,
                                          current |-> TRUE]]_vars

====
